---- MODULE Spec2Model ----
(***************************************************************************)
(* Model of the tool provisioning engine of build/tools/tools.go:          *)
(* ensurePlatform (installed-state check), install (fetch, digest,         *)
(* extract, publish), save/untar (archive extraction) over a filesystem    *)
(* with directories, regular files (inodes), symlinks and hardlinks.       *)
(*                                                                         *)
(* Paths are sequences of components from the filesystem root.  A path     *)
(* the code gives relative to the working directory is written Cwd \o p.   *)
(* File modes are the numeric permission bits (0o700 = 448).               *)
(***************************************************************************)
EXTENDS Integers, Sequences, FiniteSets, TLC

\* ------------------------------------------------------------------------
\* Paths
\* ------------------------------------------------------------------------

Parent(p) == IF p = <<>> THEN <<>> ELSE SubSeq(p, 1, Len(p) - 1)

Last(p) == p[Len(p)]

IsPrefix(a, b) == Len(a) <= Len(b) /\ SubSeq(b, 1, Len(a)) = a

\* symlinks followed before ELOOP; Linux allows 40, the model's chains are short
MaxSymlinks == 3

EmptyFn == [x \in {} |-> 0]

\* ------------------------------------------------------------------------
\* Filesystem: F.n maps every existing path to its node, F.i maps every
\* inode (named by the path that created it) to [data, mode].
\* ------------------------------------------------------------------------

DirNode(mode) == [k |-> "dir", ino |-> <<>>, to |-> <<>>, abs |-> FALSE, mode |-> mode]

FileNode(ino) == [k |-> "file", ino |-> ino, to |-> <<>>, abs |-> FALSE, mode |-> 0]

LinkNode(abs, to) == [k |-> "link", ino |-> <<>>, to |-> to, abs |-> abs, mode |-> 0]

Exists(F, p) == p = <<>> \/ p \in DOMAIN F.n

IsDir(F, p) == p = <<>> \/ (p \in DOMAIN F.n /\ F.n[p].k = "dir")

\* drop the inodes no path refers to
Gc(n, i) ==
  [n |-> n,
   i |-> [x \in {n[p].ino : p \in {q \in DOMAIN n : n[q].k = "file"}} |-> i[x]]]

Put(F, p, node) ==
  [F EXCEPT !.n = [q \in DOMAIN F.n \cup {p} |-> IF q = p THEN node ELSE F.n[q]]]

PutInode(F, x, v) ==
  [F EXCEPT !.i = [y \in DOMAIN F.i \cup {x} |-> IF y = x THEN v ELSE F.i[y]]]

\* Kernel path walk: cur is a real directory, rest the components left.
\* st = "ok": p is the real path; st = "noent": only the last component is
\* missing and p is where it would be created; st = "err": otherwise.
RECURSIVE Walk(_, _, _, _)
Walk(F, cur, rest, fuel) ==
  IF rest = <<>> THEN [st |-> "ok", p |-> cur]
  ELSE IF Head(rest) = ".." THEN Walk(F, Parent(cur), Tail(rest), fuel)
  ELSE LET q == Append(cur, Head(rest)) IN
    IF q \notin DOMAIN F.n
      THEN IF Tail(rest) = <<>> THEN [st |-> "noent", p |-> q]
                                ELSE [st |-> "err", p |-> q]
    ELSE IF F.n[q].k = "link"
      THEN IF fuel = 0 THEN [st |-> "err", p |-> q]
           ELSE Walk(F, IF F.n[q].abs THEN <<>> ELSE cur,
                     F.n[q].to \o Tail(rest), fuel - 1)
    ELSE IF F.n[q].k = "dir" THEN Walk(F, q, Tail(rest), fuel)
    ELSE IF Tail(rest) = <<>> THEN [st |-> "ok", p |-> q]
    ELSE [st |-> "err", p |-> q]

\* resolve following every symlink (stat, open, chmod)
Follow(F, p) == Walk(F, <<>>, p, MaxSymlinks)

NoFollowIn(F, p, d) ==
  IF d.st # "ok" \/ ~IsDir(F, d.p) THEN [st |-> "err", p |-> p]
  ELSE IF Last(p) = ".." THEN [st |-> "ok", p |-> Parent(d.p)]
  ELSE IF Exists(F, Append(d.p, Last(p))) THEN [st |-> "ok", p |-> Append(d.p, Last(p))]
  ELSE [st |-> "noent", p |-> Append(d.p, Last(p))]

\* resolve the directory part only (lstat, unlink, symlink, link)
NoFollow(F, p) ==
  IF p = <<>> THEN [st |-> "ok", p |-> <<>>]
  ELSE NoFollowIn(F, p, Walk(F, <<>>, Parent(p), MaxSymlinks))

EvalSymlinksOf(r) ==
  IF r.st = "ok" THEN [e |-> "", p |-> r.p] ELSE [e |-> "ENOENT", p |-> <<>>]

\* filepath.EvalSymlinks: the real path, or an error
EvalSymlinks(F, p) == EvalSymlinksOf(Follow(F, p))

StatOf(F, r) ==
  IF r.st # "ok" THEN [e |-> "ENOENT", mode |-> 0]
  ELSE IF r.p = <<>> THEN [e |-> "", mode |-> 493]
  ELSE IF F.n[r.p].k = "file" THEN [e |-> "", mode |-> F.i[F.n[r.p].ino].mode]
  ELSE [e |-> "", mode |-> F.n[r.p].mode]

\* os.Stat(p).Mode() permission bits; e # "" when the path does not resolve
Stat(F, p) == StatOf(F, Follow(F, p))

\* os.MkdirAll(p, mode): every missing prefix is created; an existing
\* directory is kept as it is
RECURSIVE MkdirFrom(_, _, _, _)
RECURSIVE MkdirAt(_, _, _, _, _)
MkdirAt(F, p, mode, j, r) ==
  IF r.st = "ok" THEN
    IF IsDir(F, r.p) THEN MkdirFrom(F, p, mode, j + 1)
    ELSE [F |-> F, e |-> "ENOTDIR"]
  ELSE IF r.st = "noent" /\ IsDir(F, Parent(r.p))
    THEN MkdirFrom(Put(F, r.p, DirNode(mode)), p, mode, j + 1)
  ELSE [F |-> F, e |-> "ENOENT"]

MkdirFrom(F, p, mode, j) ==
  IF j > Len(p) THEN [F |-> F, e |-> ""]
  ELSE MkdirAt(F, p, mode, j, Follow(F, SubSeq(p, 1, j)))

MkdirAll(F, p, mode) == MkdirFrom(F, p, mode, 1)

RemoveAllAt(F, r) ==
  IF r.st = "err" \/ r.st = "noent" \/ r.p = <<>> THEN [F |-> F, e |-> ""]
  ELSE [F |-> Gc([q \in {x \in DOMAIN F.n : ~IsPrefix(r.p, x)} |-> F.n[q]], F.i),
        e |-> ""]

\* os.RemoveAll(p): the entry and everything below it; a missing path is nil
RemoveAll(F, p) == RemoveAllAt(F, NoFollow(F, p))

RemoveAt(F, r) ==
  IF r.st # "ok" \/ r.p = <<>> THEN [F |-> F, e |-> "ENOENT"]
  ELSE IF \E q \in DOMAIN F.n : q # r.p /\ IsPrefix(r.p, q)
    THEN [F |-> F, e |-> "ENOTEMPTY"]
  ELSE [F |-> Gc([q \in DOMAIN F.n \ {r.p} |-> F.n[q]], F.i), e |-> ""]

\* os.Remove(p): one file, link or empty directory
Remove(F, p) == RemoveAt(F, NoFollow(F, p))

\* bytes written at offset 0 of a file holding old: the rest of old stays
Overlay(old, new) ==
  IF Len(new) >= Len(old) THEN new
  ELSE new \o SubSeq(old, Len(new) + 1, Len(old))

\* a new empty regular file at p
NewFile(F, p, mode) ==
  PutInode(Put(F, p, FileNode(p)), p, [data |-> <<>>, mode |-> mode])

OpenAt(F, r, trunc, mode) ==
  IF r.st = "ok" THEN
    IF r.p = <<>> \/ F.n[r.p].k # "file" THEN [F |-> F, e |-> "EISDIR", ino |-> <<>>]
    ELSE [F |-> IF trunc
                  THEN PutInode(F, F.n[r.p].ino, [F.i[F.n[r.p].ino] EXCEPT !.data = <<>>])
                  ELSE F,
          e |-> "", ino |-> F.n[r.p].ino]
  ELSE IF r.st = "noent" /\ IsDir(F, Parent(r.p))
    THEN [F |-> NewFile(F, r.p, mode), e |-> "", ino |-> r.p]
  ELSE [F |-> F, e |-> "ENOENT", ino |-> <<>>]

\* os.OpenFile(p, O_CREATE|O_WRONLY[|O_TRUNC], mode): ino is the file opened
OpenFile(F, p, trunc, mode) == OpenAt(F, Follow(F, p), trunc, mode)

CreateAt(F, r, mode) ==
  IF r.st = "ok" THEN [F |-> F, e |-> "EEXIST"]
  ELSE IF r.st = "noent" THEN [F |-> NewFile(F, r.p, mode), e |-> ""]
  ELSE [F |-> F, e |-> "ENOENT"]

\* os.OpenFile(p, O_CREATE|O_EXCL, mode) followed by Close
CreateExcl(F, p, mode) == CreateAt(F, NoFollow(F, p), mode)

\* the bytes of a file holding old after data is written at offset off
Written(old, off, data) ==
  (IF off <= Len(old) THEN SubSeq(old, 1, off)
   ELSE old \o [j \in 1..(off - Len(old)) |-> "hole"])
  \o Overlay(IF off < Len(old) THEN SubSeq(old, off + 1, Len(old)) ELSE <<>>, data)

\* write data at offset off of the open file x
WriteAt(F, x, off, data) ==
  IF x \notin DOMAIN F.i THEN F
  ELSE PutInode(F, x, [F.i[x] EXCEPT !.data = Written(F.i[x].data, off, data)])

SymlinkAt(F, abs, to, r) ==
  IF r.st = "ok" THEN [F |-> F, e |-> "EEXIST"]
  ELSE IF r.st = "noent" THEN [F |-> Put(F, r.p, LinkNode(abs, to)), e |-> ""]
  ELSE [F |-> F, e |-> "ENOENT"]

\* os.Symlink(text, p)
Symlink(F, abs, to, p) == SymlinkAt(F, abs, to, NoFollow(F, p))

LinkAt(F, ro, rn) ==
  IF ro.st # "ok" \/ ro.p = <<>> THEN [F |-> F, e |-> "ENOENT"]
  ELSE IF F.n[ro.p].k = "dir" THEN [F |-> F, e |-> "EPERM"]
  ELSE IF rn.st = "ok" THEN [F |-> F, e |-> "EEXIST"]
  ELSE IF rn.st = "noent" THEN [F |-> Put(F, rn.p, F.n[ro.p]), e |-> ""]
  ELSE [F |-> F, e |-> "ENOENT"]

\* os.Link(old, new)
Link(F, old, new) == LinkAt(F, NoFollow(F, old), NoFollow(F, new))

ChmodAt(F, r, mode) ==
  IF r.st # "ok" \/ r.p = <<>> THEN [F |-> F, e |-> "ENOENT"]
  ELSE IF F.n[r.p].k = "file"
    THEN [F |-> PutInode(F, F.n[r.p].ino, [F.i[F.n[r.p].ino] EXCEPT !.mode = mode]),
          e |-> ""]
  ELSE [F |-> Put(F, r.p, [F.n[r.p] EXCEPT !.mode = mode]), e |-> ""]

\* os.Chmod(p, mode)
Chmod(F, p, mode) == ChmodAt(F, Follow(F, p), mode)

\* the paths whose entry or content differs between two filesystems
Changed(F, G) ==
  {p \in DOMAIN F.n \cup DOMAIN G.n :
     \/ p \notin DOMAIN F.n
     \/ p \notin DOMAIN G.n
     \/ F.n[p] # G.n[p]
     \/ (F.n[p].k = "file" /\ F.i[F.n[p].ino] # G.i[G.n[p].ino])}

\* ------------------------------------------------------------------------
\* Catalog and platforms
\* ------------------------------------------------------------------------

dockerOS == "docker"

\* runtime.GOOS and runtime.GOARCH of the host the model runs on
GOOS == "linux"

GOARCH == "amd64"

linuxAMD64 == [OS |-> "linux", Arch |-> "amd64"]

darwinAMD64 == [OS |-> "darwin", Arch |-> "amd64"]

darwinARM64 == [OS |-> "darwin", Arch |-> "arm64"]

dockerAMD64 == [OS |-> dockerOS, Arch |-> "amd64"]

dockerARM64 == [OS |-> dockerOS, Arch |-> "arm64"]

DockerPlatform == [OS |-> dockerOS, Arch |-> GOARCH]

\* Platform.String(): p.OS + "." + p.Arch
PlatformString(p) ==
  CASE p.OS = "linux" /\ p.Arch = "amd64" -> "linux.amd64"
    [] p.OS = "docker" /\ p.Arch = "amd64" -> "docker.amd64"
    [] OTHER -> "other"

\* one chunk of a response body: a tar entry (t = "dir", "reg", "sym",
\* "hard", "fifo"), the end-of-archive marker with the gzip trailer ("eoa"),
\* plain bytes ("data"), bytes that do not decode ("junk"), or the place
\* where the connection breaks ("ioerr").  b names the chunk's bytes.
Entry(t, name, link, mode, data) ==
  [t |-> t, name |-> name, link |-> link, mode |-> mode, data |-> data, b |-> "tar"]

Eoa == [t |-> "eoa", name |-> <<>>, link |-> <<>>, mode |-> 0, data |-> <<>>, b |-> "eoa"]

Data(b) == [t |-> "data", name |-> <<>>, link |-> <<>>, mode |-> 0, data |-> <<>>, b |-> b]

Junk == [t |-> "junk", name |-> <<>>, link |-> <<>>, mode |-> 0, data |-> <<>>, b |-> "junk"]

IoErr == [t |-> "ioerr", name |-> <<>>, link |-> <<>>, mode |-> 0, data |-> <<>>, b |-> ""]

\* sha256 of a byte stream, rendered as lower-case hex: an injective tag
Sha256(bytes) == <<"sha256", bytes>>

\* the artifacts the catalog's digests pin
GoArchive ==
  <<Entry("dir", <<"go", "bin">>, <<>>, 493, <<>>),
    Entry("reg", <<"go", "bin", "go">>, <<>>, 493, <<"GO">>),
    Entry("reg", <<"go", "bin", "gofmt">>, <<>>, 493, <<"GOFMT">>),
    Eoa>>

GaiaBinary == <<Data("G1"), Data("G2")>>

DemoArchive ==
  <<Entry("reg", <<"a">>, <<>>, 420, <<"A">>),
    Entry("reg", <<"b">>, <<>>, 420, <<"B">>),
    Eoa>>

MiscBinary == <<Data("M")>>

PartArchive == <<Entry("reg", <<"p1">>, <<>>, 493, <<"P1">>), Eoa>>

\* The catalog: the entries Go (local archive, tool-level Binaries) and Gaia
\* (docker single file, source-level Binaries) of the source, the fixture
\* demo whose tool-level and source-level Binaries collide on bin/x, and the
\* fixtures misc, whose Hash strings are "md5:<digest>" and "<digest>", bare,
\* which maps no binary, and part, whose archive lacks the mapped file p2.
tools ==
  [go |->
     [Version |-> "1.20.1", ForLocal |-> TRUE, ForDocker |-> FALSE,
      Dir |-> "go-1.20.1",
      Sources |-> (linuxAMD64 :>
         [URL |-> [base |-> "go1.20.1.linux-amd64.tar.gz", targz |-> TRUE],
          Hash |-> [colon |-> TRUE, alg |-> "sha256", sum |-> Sha256(GoArchive)],
          Binaries |-> EmptyFn]),
      Binaries |-> (<<"bin", "go">> :> <<"go", "bin", "go">>)
                   @@ (<<"bin", "gofmt">> :> <<"go", "bin", "gofmt">>)],
   gaia |->
     [Version |-> "v7.1.0", ForLocal |-> FALSE, ForDocker |-> TRUE,
      Dir |-> "gaia-v7.1.0",
      Sources |-> (dockerAMD64 :>
         [URL |-> [base |-> "gaiad-v7.1.0-linux-amd64", targz |-> FALSE],
          Hash |-> [colon |-> TRUE, alg |-> "sha256", sum |-> Sha256(GaiaBinary)],
          Binaries |-> (<<"bin", "gaiad">> :> <<"gaiad-v7.1.0-linux-amd64">>)]),
      Binaries |-> EmptyFn],
   demo |->
     [Version |-> "1.0.0", ForLocal |-> TRUE, ForDocker |-> TRUE,
      Dir |-> "demo-1.0.0",
      Sources |-> (linuxAMD64 :>
         [URL |-> [base |-> "demo.tar.gz", targz |-> TRUE],
          Hash |-> [colon |-> TRUE, alg |-> "sha256", sum |-> Sha256(DemoArchive)],
          Binaries |-> (<<"bin", "x">> :> <<"b">>)])
        @@ (dockerAMD64 :>
         [URL |-> [base |-> "demo.tar.gz", targz |-> TRUE],
          Hash |-> [colon |-> TRUE, alg |-> "sha256", sum |-> Sha256(DemoArchive)],
          Binaries |-> (<<"bin", "x">> :> <<"b">>)]),
      Binaries |-> (<<"bin", "x">> :> <<"a">>)],
   misc |->
     [Version |-> "0.1", ForLocal |-> TRUE, ForDocker |-> TRUE,
      Dir |-> "misc-0.1",
      Sources |-> (linuxAMD64 :>
         [URL |-> [base |-> "misc", targz |-> FALSE],
          Hash |-> [colon |-> TRUE, alg |-> "md5", sum |-> Sha256(MiscBinary)],
          Binaries |-> EmptyFn])
        @@ (dockerAMD64 :>
         [URL |-> [base |-> "misc", targz |-> FALSE],
          Hash |-> [colon |-> FALSE, alg |-> "", sum |-> Sha256(MiscBinary)],
          Binaries |-> EmptyFn]),
      Binaries |-> (<<"bin", "misc">> :> <<"misc">>)],
   bare |->
     [Version |-> "0.1", ForLocal |-> TRUE, ForDocker |-> FALSE,
      Dir |-> "bare-0.1",
      Sources |-> (linuxAMD64 :>
         [URL |-> [base |-> "bare.tar.gz", targz |-> TRUE],
          Hash |-> [colon |-> TRUE, alg |-> "sha256", sum |-> Sha256(PartArchive)],
          Binaries |-> EmptyFn]),
      Binaries |-> EmptyFn],
   part |->
     [Version |-> "0.1", ForLocal |-> TRUE, ForDocker |-> FALSE,
      Dir |-> "part-0.1",
      Sources |-> (linuxAMD64 :>
         [URL |-> [base |-> "part.tar.gz", targz |-> TRUE],
          Hash |-> [colon |-> TRUE, alg |-> "sha256", sum |-> Sha256(PartArchive)],
          Binaries |-> EmptyFn]),
      Binaries |-> (<<"bin", "p1">> :> <<"p1">>) @@ (<<"bin", "p2">> :> <<"p2">>)]]

Names == DOMAIN tools

\* Assign with the earlier map winning on a key of both
AssignFirstWins(m1, m2) ==
  [k \in DOMAIN m1 \cup DOMAIN m2 |-> IF k \in DOMAIN m1 THEN m1[k] ELSE m2[k]]

\* lo.Assign(m1, m2): the keys of both maps, the later map winning
Assign(m1, m2) ==
  [k \in DOMAIN m1 \cup DOMAIN m2 |-> IF k \in DOMAIN m2 THEN m2[k] ELSE m1[k]]

\* CacheDir(): <user cache dir>/crust
CacheDir == <<"cache", "crust">>

\* the working directory of the process
Cwd == <<"cwd">>

\* filepath.Clean of an absolute path: ".." removes the component before it
RECURSIVE CleanFrom(_, _)
CleanFrom(done, rest) ==
  IF rest = <<>> THEN done
  ELSE IF Head(rest) = ".." THEN CleanFrom(Parent(done), Tail(rest))
  ELSE CleanFrom(Append(done, Head(rest)), Tail(rest))

Clean(p) == CleanFrom(<<>>, p)

\* toolDir(name, platform): <cache>/<platform>/<name>-<version>
toolDir(name, platform) ==
  CacheDir \o <<PlatformString(platform), tools[name].Dir>>

\* filepath.Clean of a relative path: leading ".." components stay
RECURSIVE CleanRelFrom(_, _)
CleanRelFrom(done, rest) ==
  IF rest = <<>> THEN done
  ELSE IF Head(rest) = ".." /\ done # <<>> /\ Last(done) # ".."
    THEN CleanRelFrom(Parent(done), Tail(rest))
  ELSE CleanRelFrom(Append(done, Head(rest)), Tail(rest))

\* strings.Repeat("../", n) as components
RECURSIVE Repeat(_)
Repeat(n) == IF n = 0 THEN <<>> ELSE <<"..">> \o Repeat(n - 1)

\* the orders in which a range over a map with these keys may run
RECURSIVE Perms(_)
Perms(S) ==
  IF S = {} THEN {<<>>}
  ELSE UNION {{<<x>> \o t : t \in Perms(S \ {x})} : x \in S}

\* mode & 0o700
OwnerBits(mode) == (mode \div 64) % 8

\* ------------------------------------------------------------------------
\* One call of ensurePlatform, step by step.  A call is a record; Step*
\* take the call and the filesystem and return both after one step.
\* ------------------------------------------------------------------------

NoCall ==
  [pc |-> "idle", tool |-> "", platform |-> linuxAMD64, order |-> <<>>,
   porder |-> <<>>, i |-> 0, body |-> <<>>, pos |-> 0, h |-> <<>>, ino |-> <<>>,
   ret |-> "", at |-> "", reqs |-> 0, w |-> {}, xw |-> {}, pub |-> {}, rep |-> FALSE,
   pre |-> [n |-> EmptyFn, i |-> EmptyFn], post |-> [n |-> EmptyFn, i |-> EmptyFn],
   solo |-> TRUE, op |-> "ensure", path |-> <<>>, names |-> <<>>, bad |-> "",
   ahead |-> 0, status |-> ""]

Source(c) == tools[c.tool].Sources[c.platform]

\* lo.Assign(info.Binaries, source.Binaries) of the call's tool and platform
Effective(name, platform) ==
  Assign(tools[name].Binaries, tools[name].Sources[platform].Binaries)

\* dstDir of install, and the directory ensurePlatform joins dst to
DstDir(platform) ==
  IF platform.OS = dockerOS THEN CacheDir \o <<PlatformString(platform)>> ELSE Cwd

\* the call once it has returned: its locals are gone
Left(c) ==
  [c EXCEPT !.pc = "done", !.order = <<>>, !.porder = <<>>, !.i = 0, !.pos = 0,
            !.ino = <<>>, !.ahead = 0]

Return(c, F, ret) == [c |-> Left([c EXCEPT !.ret = ret]), F |-> F]

Panic(c, F) == Return(c, F, "panic")

\* return an error after the cleanup has been deferred
Fail(c, F, ret) == [c |-> [c EXCEPT !.pc = "fail", !.ret = ret], F |-> F]

Goto(c, F, pc) == [c |-> [c EXCEPT !.pc = pc], F |-> F]

\* ensurePlatform leaves its loop and returns install(ctx, tool, platform)
CallInstall(c, F) == [c |-> [c EXCEPT !.pc = "install", !.order = <<>>, !.i = 0], F |-> F]

\* the lookups with a missing platform source returned as an error
StepEnsureReturns(c, F) ==
  IF c.tool \notin DOMAIN tools THEN Return(c, F, "err:undefined")
  ELSE IF c.platform \notin DOMAIN tools[c.tool].Sources
    THEN Return(c, F, "err:undefined")
  ELSE IF c.order = <<>> THEN Return(c, F, "ok")
  ELSE [c |-> [c EXCEPT !.pc = "check", !.i = 1], F |-> F]

\* the lookups with an unknown tool raised as a panic
StepEnsurePanics(c, F) ==
  IF c.tool \notin DOMAIN tools THEN Panic(c, F)
  ELSE IF c.platform \notin DOMAIN tools[c.tool].Sources THEN Panic(c, F)
  ELSE IF c.order = <<>> THEN Return(c, F, "ok")
  ELSE [c |-> [c EXCEPT !.pc = "check", !.i = 1], F |-> F]

\* the lookups calling install for a tool that maps no binary
StepEnsureInstallsUnmapped(c, F) ==
  IF c.tool \notin DOMAIN tools THEN Return(c, F, "err:undefined")
  ELSE IF c.platform \notin DOMAIN tools[c.tool].Sources THEN Panic(c, F)
  ELSE IF c.order = <<>> THEN CallInstall(c, F)
  ELSE [c |-> [c EXCEPT !.pc = "check", !.i = 1], F |-> F]

\* ensurePlatform, the two lookups
StepEnsure(c, F) ==
  IF c.tool \notin DOMAIN tools THEN Return(c, F, "err:undefined")
  ELSE IF c.platform \notin DOMAIN tools[c.tool].Sources THEN Panic(c, F)
  ELSE IF c.order = <<>> THEN Return(c, F, "ok")
  ELSE [c |-> [c EXCEPT !.pc = "check", !.i = 1], F |-> F]

\* the mode test of ensurePlatform on the resolved artifact
ModeRejected(mode) == OwnerBits(mode) = 0

\* the tests of ensurePlatform on the file the destination resolves to
CheckStat(c, F, fInfo) ==
  IF fInfo.e # "" THEN CallInstall(c, F)
  ELSE IF ModeRejected(fInfo.mode) THEN CallInstall(c, F)
  ELSE IF c.i = Len(c.order) THEN Return(c, F, "ok")
  ELSE [c |-> [c EXCEPT !.i = c.i + 1], F |-> F]

\* the loop going on to the next destination after one that does not resolve
CheckResolvedGoesOn(c, F, srcPath, real) ==
  IF real.e # "" \/ real.p # srcPath
    THEN IF c.i = Len(c.order) THEN CallInstall(c, F)
         ELSE [c |-> [c EXCEPT !.i = c.i + 1], F |-> F]
  ELSE CheckStat(c, F, Stat(F, real.p))

\* a test that is content with a destination that resolves, wherever to
CheckResolvedAnywhere(c, F, srcPath, real) ==
  IF real.e # "" THEN CallInstall(c, F)
  ELSE CheckStat(c, F, Stat(F, real.p))

\* the test of ensurePlatform on the path the destination resolves to
CheckResolved(c, F, srcPath, real) ==
  IF real.e # "" \/ real.p # srcPath THEN CallInstall(c, F)
  ELSE CheckStat(c, F, Stat(F, real.p))

\* dstPath of ensurePlatform for the pair the loop is at
CheckDst(c) == Clean(DstDir(c.platform) \o c.order[c.i])

\* srcPath of ensurePlatform for the pair the loop is at
CheckSrc(c) ==
  Clean(toolDir(c.tool, c.platform) \o Effective(c.tool, c.platform)[c.order[c.i]])

\* StepCheck comparing the resolved path with the link's own path
StepCheckAgainstDst(c, F) ==
  CheckResolved(c, F, CheckDst(c), EvalSymlinks(F, CheckDst(c)))

\* ensurePlatform, one iteration of the loop over the effective mapping
StepCheck(c, F) ==
  CheckResolved(c, F, CheckSrc(c), EvalSymlinks(F, CheckDst(c)))

\* a request whose failure is noticed only after the tool directory is removed
StepRequestRemovesFirst(c, F, rsp, po) ==
  IF rsp.terr
    THEN Return([c EXCEPT !.reqs = c.reqs + 1],
                RemoveAll(F, toolDir(c.tool, c.platform)).F, "err:transport")
  ELSE [c |-> [c EXCEPT !.pc = "rmdir", !.reqs = c.reqs + 1, !.body = rsp.body,
                        !.porder = po, !.ahead = rsp.ahead, !.status = rsp.status],
        F |-> F]

\* install: http.DefaultClient.Do; rsp is what the network answers and po
\* the order the publishing loop will range in
StepRequest(c, F, rsp, po) ==
  IF rsp.terr THEN Return([c EXCEPT !.reqs = c.reqs + 1], F, "err:transport")
  ELSE [c |-> [c EXCEPT !.pc = "rmdir", !.reqs = c.reqs + 1, !.body = rsp.body,
                        !.porder = po, !.ahead = rsp.ahead, !.status = rsp.status],
        F |-> F]

\* hasher(hashStr): two parts around the first ':', the first one "sha256"
HasherOk(hash) == hash.colon /\ hash.alg = "sha256"

\* must.OK and the panics of install: a failed call r panics, else go on
OrPanic(c, r, pc) == IF r.e # "" THEN Panic(c, r.F) ELSE Goto(c, r.F, pc)

\* install: hasher, then os.RemoveAll(toolDir)
StepRemoveDir(c, F) ==
  IF ~HasherOk(Source(c).Hash) THEN Panic(c, F)
  ELSE OrPanic(c, RemoveAll(F, toolDir(c.tool, c.platform)), "mkdir")

\* install: os.MkdirAll(toolDir, 0o700), the cleanup is deferred, save starts
StepMakeDir(c, F) ==
  OrPanic([c EXCEPT !.pos = 1, !.h = <<>>],
          MkdirAll(F, toolDir(c.tool, c.platform), 448),
          IF Source(c).URL.targz THEN "untar" ELSE "open")

\* ensureDir(file): os.MkdirAll(filepath.Dir(file), 0o755)
ensureDir(F, file) == MkdirAll(F, Clean(Parent(file)), 493)

\* untar, a directory entry
UntarDir(F, name, hdr) == MkdirAll(F, name, hdr.mode)

\* the file is created and nothing is copied into it
UntarRegNoCopy(o, hdr) == [F |-> o.F, e |-> o.e]

UntarRegOpened(o, hdr) ==
  IF o.e # "" THEN [F |-> o.F, e |-> o.e]
  ELSE [F |-> WriteAt(o.F, o.ino, 0, hdr.data), e |-> ""]

UntarRegIn(d, name, hdr) ==
  IF d.e # "" THEN d ELSE UntarRegOpened(OpenFile(d.F, name, FALSE, hdr.mode), hdr)

\* untar, a regular file entry: O_CREATE|O_WRONLY, then io.Copy
UntarReg(F, name, hdr) == UntarRegIn(ensureDir(F, name), name, hdr)

UntarSymlinkIn(d, name, hdr) ==
  IF d.e # "" THEN d ELSE Symlink(d.F, FALSE, hdr.link, name)

\* untar, a symlink entry
UntarSymlink(F, name, hdr) == UntarSymlinkIn(ensureDir(F, name), name, hdr)

\* the path untar passes to os.OpenFile and os.Link for a hardlink entry:
\* header.Linkname as it is in the archive, relative to the working directory
LinkSource(path, hdr) == Cwd \o hdr.link

UntarLinkPlaced(o, path, name, hdr) ==
  IF o.e # "" /\ o.e # "EEXIST" THEN o
  ELSE Link(o.F, LinkSource(path, hdr), name)

UntarLinkIn(d, path, name, hdr) ==
  IF d.e # "" THEN d
  ELSE UntarLinkPlaced(CreateExcl(d.F, LinkSource(path, hdr), hdr.mode), path, name, hdr)

\* untar, a hardlink entry: placeholder for the target, then os.Link
UntarLink(F, path, name, hdr) == UntarLinkIn(ensureDir(F, name), path, name, hdr)

\* header.Name = path + "/" + header.Name
EntryName(path, hdr) == path \o hdr.name

\* untar, the switch over header.Typeflag
UntarEntry(F, path, hdr) ==
  CASE hdr.t = "dir" -> UntarDir(F, EntryName(path, hdr), hdr)
    [] hdr.t = "reg" -> UntarReg(F, EntryName(path, hdr), hdr)
    [] hdr.t = "sym" -> UntarSymlink(F, EntryName(path, hdr), hdr)
    [] hdr.t = "hard" -> UntarLink(F, path, EntryName(path, hdr), hdr)
    [] OTHER -> [F |-> F, e |-> "unsupported file type"]

\* untar after one entry: its error is returned, else the loop goes on
Untarred(c, r) == IF r.e # "" THEN Fail(c, r.F, "err:save") ELSE [c |-> c, F |-> r.F]

\* the call after reading the chunk at its position through the TeeReader
Read(c) == [c EXCEPT !.h = Append(c.h, c.body[c.pos]), !.pos = c.pos + 1]

\* the buffered reader under gzip has taken c.ahead chunks more than the tar
\* reader consumed out of the body; the TeeReader hashed them
ReadAhead(c) == IF c.ahead > 0 /\ c.pos <= Len(c.body) THEN Read(c) ELSE c

\* save for a .tar.gz URL: gzip.NewReader and one round of untar's loop
StepUntar(c, F) ==
  IF c.pos > Len(c.body) THEN Fail(c, F, "err:save")
  ELSE IF c.body[c.pos].t = "ioerr" THEN Fail(c, F, "err:save")
  ELSE IF c.body[c.pos].t \in {"junk", "data"} THEN Fail(Read(c), F, "err:save")
  ELSE IF c.body[c.pos].t = "eoa" THEN Goto(ReadAhead(Read(c)), F, "sum")
  ELSE Untarred(Read(c), UntarEntry(F, toolDir(c.tool, c.platform), c.body[c.pos]))

Opened(c, o) ==
  IF o.e # "" THEN Fail(c, o.F, "err:save")
  ELSE [c |-> [c EXCEPT !.pc = "copy", !.ino = o.ino], F |-> o.F]

\* save for any other URL: os.OpenFile(<path>/<base(url)>, O_CREATE|O_WRONLY|O_TRUNC, 0o700)
StepOpen(c, F) ==
  Opened(c, OpenFile(F, toolDir(c.tool, c.platform) \o <<Source(c).URL.base>>, TRUE, 448))

\* a copy that writes every chunk at the start of the file
StepCopyFromStart(c, F) ==
  IF c.pos > Len(c.body) THEN Goto(c, F, "sum")
  ELSE IF c.body[c.pos].t = "ioerr" THEN Fail(c, F, "err:save")
  ELSE [c |-> Read(c), F |-> WriteAt(F, c.ino, 0, <<c.body[c.pos].b>>)]

\* save for any other URL: io.Copy(f, reader), one read and write
StepCopy(c, F) ==
  IF c.pos > Len(c.body) THEN Goto(c, F, "sum")
  ELSE IF c.body[c.pos].t = "ioerr" THEN Fail(c, F, "err:save")
  ELSE [c |-> Read(c), F |-> WriteAt(F, c.ino, c.pos - 1, <<c.body[c.pos].b>>)]

\* a comparison that accepts every digest
ChecksumIgnored(actual, hash) == FALSE

\* actualChecksum != expectedChecksum
ChecksumMismatch(actual, hash) == actual # hash.sum

\* install: the digest comparison
StepSum(c, F) ==
  IF ChecksumMismatch(Sha256(c.h), Source(c).Hash) THEN Fail(c, F, "err:checksum")
  ELSE IF c.porder = <<>> THEN Return(c, F, "ok")
  ELSE [c |-> [c EXCEPT !.pc = "pubRemove", !.i = 1], F |-> F]

\* install returning its error without the deferred cleanup
StepNoCleanup(c, F) == [c |-> Left(c), F |-> F]

\* the deferred cleanup of install when retErr != nil
StepCleanup(c, F) ==
  [c |-> Left(c), F |-> RemoveAll(F, toolDir(c.tool, c.platform)).F]

PubDst(c) == DstDir(c.platform) \o c.porder[c.i]

PubSrc(c) == toolDir(c.tool, c.platform) \o Effective(c.tool, c.platform)[c.porder[c.i]]

PubRemoved(c, r) ==
  IF r.e # "" /\ r.e # "ENOENT" THEN Panic(c, r.F)
  ELSE [c |-> [c EXCEPT !.pc = "pubMkdir", !.pub = c.pub \cup {c.porder[c.i]}],
        F |-> r.F]

\* publish: os.Remove(dstPath)
StepPubRemove(c, F) == PubRemoved(c, Remove(F, PubDst(c)))

\* publish: os.MkdirAll(filepath.Dir(dstPath), 0o700)
StepPubMkdir(c, F) == OrPanic(c, MkdirAll(F, Clean(Parent(PubDst(c))), 448), "pubChmod")

\* publish without the chmod of the artifact
StepPubNoChmod(c, F) == Goto(c, F, "pubSymlink")

\* publish: os.Chmod(srcPath, 0o700)
StepPubChmod(c, F) == OrPanic(c, Chmod(F, PubSrc(c), 448), "pubSymlink")

\* srcLinkPath of a docker install
DockerLinkPerSegment(name, dst, src) ==
  CleanRelFrom(<<>>, Repeat(Len(dst)) \o <<tools[name].Dir>> \o src)

DockerLink(name, dst, src) ==
  CleanRelFrom(<<>>, Repeat(Len(dst) - 1) \o <<tools[name].Dir>> \o src)

\* publish: os.Symlink, relative for docker and absolute otherwise
StepPubSymlink(c, F) ==
  IF c.platform.OS = dockerOS
    THEN OrPanic(c, Symlink(F, FALSE,
                            DockerLink(c.tool, c.porder[c.i],
                                       Effective(c.tool, c.platform)[c.porder[c.i]]),
                            PubDst(c)),
                 "pubEval")
    ELSE OrPanic(c, Symlink(F, TRUE, PubSrc(c), PubDst(c)), "pubEval")

\* publish: must.Any(filepath.EvalSymlinks(dstPath)), then the next pair
StepPubEval(c, F) ==
  IF EvalSymlinks(F, PubDst(c)).e # "" THEN Panic(c, F)
  ELSE IF c.i = Len(c.porder) THEN Return(c, F, "ok")
  ELSE [c |-> [c EXCEPT !.pc = "pubRemove", !.i = c.i + 1], F |-> F]

\* ------------------------------------------------------------------------
\* CopyToolBinaries(tool, path, binaryNames...), step by step
\* ------------------------------------------------------------------------

\* ByName(tool).Binaries; the zero Tool for a name the catalog does not hold
ToolBinaries(name) == IF name \in Names THEN tools[name].Binaries ELSE EmptyFn

\* ByName(tool).Sources[DockerPlatform].Binaries
DockerBinaries(name) ==
  IF name \in Names /\ DockerPlatform \in DOMAIN tools[name].Sources
    THEN tools[name].Sources[DockerPlatform].Binaries
    ELSE EmptyFn

\* PathDocker(tool): <cache>/<docker platform>/<tool>
PathDocker(key) == Clean(CacheDir \o <<PlatformString(DockerPlatform)>> \o key)

\* storedBinaryNames: filepath.Base of every key of the tool-level and then
\* of the source-level Binaries, mapped to the key
storedBinaryNames(name) ==
  [b \in {Last(k) : k \in DOMAIN ToolBinaries(name) \cup DOMAIN DockerBinaries(name)} |->
     IF \E k \in DOMAIN DockerBinaries(name) : Last(k) = b
       THEN CHOOSE k \in DOMAIN DockerBinaries(name) : Last(k) = b
       ELSE CHOOSE k \in DOMAIN ToolBinaries(name) : Last(k) = b]

\* the requested names the index does not hold
Missing(c) == {j \in DOMAIN c.names : c.names[j] \notin DOMAIN storedBinaryNames(c.tool)}

\* the error of the validation loop: it names the first missing binary
NoBinary(c, F) ==
  Return([c EXCEPT !.bad = c.names[CHOOSE j \in Missing(c) : \A x \in Missing(c) : j <= x]],
         F, "err:nobinary")

\* the destination directory made before the names are validated
StepCopyMkdirFirst(c, F) ==
  IF c.names = <<>> THEN Return(c, F, "ok")
  ELSE IF Missing(c) # {} THEN NoBinary(c, MkdirAll(F, c.path, 511).F)
  ELSE Goto(c, F, "cpMkdir")

\* CopyToolBinaries: the empty list, the index and the validation loop
StepCopyValidate(c, F) ==
  IF c.names = <<>> THEN Return(c, F, "ok")
  ELSE IF Missing(c) # {} THEN NoBinary(c, F)
  ELSE Goto(c, F, "cpMkdir")

CopyMade(c, r) ==
  IF r.e # "" THEN Return(c, r.F, "err:copy")
  ELSE [c |-> [c EXCEPT !.pc = "cpCopy", !.i = 1], F |-> r.F]

\* CopyToolBinaries: os.MkdirAll(path, os.ModePerm)
StepCopyMkdir(c, F) == CopyMade(c, MkdirAll(F, c.path, 511))

\* the destination opened without O_TRUNC
CopyOpenNoTrunc(F, file) == OpenFile(F, file, FALSE, 511)

\* os.OpenFile(filepath.Join(path, binaryName), O_CREATE|O_TRUNC|O_WRONLY, 0o777)
CopyOpen(F, file) == OpenFile(F, file, TRUE, 511)

\* io.Copy(fw, fr) and the next name of the list
CopyWritten(c, o, abs) ==
  IF o.e # "" THEN Return(c, o.F, "err:copy")
  ELSE IF o.F.n[abs].k # "file" THEN Return(c, o.F, "err:copy")
  ELSE IF c.i = Len(c.names)
    THEN Return(c, WriteAt(o.F, o.ino, 0, o.F.i[o.F.n[abs].ino].data), "ok")
  ELSE [c |-> [c EXCEPT !.i = c.i + 1],
        F |-> WriteAt(o.F, o.ino, 0, o.F.i[o.F.n[abs].ino].data)]

CopyResolved(c, F, real) ==
  IF real.e # "" THEN Return(c, F, "err:copy")
  ELSE CopyWritten(c, CopyOpen(F, c.path \o <<c.names[c.i]>>), real.p)

\* CopyToolBinaries: one round of the copying loop
StepCopyOne(c, F) ==
  CopyResolved(c, F, EvalSymlinks(F, PathDocker(storedBinaryNames(c.tool)[c.names[c.i]])))

\* the steps of a call that take no input
StepPlain(c, F) ==
  CASE c.pc = "check" -> StepCheck(c, F)
    [] c.pc = "rmdir" -> StepRemoveDir(c, F)
    [] c.pc = "mkdir" -> StepMakeDir(c, F)
    [] c.pc = "untar" -> StepUntar(c, F)
    [] c.pc = "open" -> StepOpen(c, F)
    [] c.pc = "copy" -> StepCopy(c, F)
    [] c.pc = "sum" -> StepSum(c, F)
    [] c.pc = "fail" -> StepCleanup(c, F)
    [] c.pc = "pubRemove" -> StepPubRemove(c, F)
    [] c.pc = "pubMkdir" -> StepPubMkdir(c, F)
    [] c.pc = "pubChmod" -> StepPubChmod(c, F)
    [] c.pc = "pubSymlink" -> StepPubSymlink(c, F)
    [] c.pc = "pubEval" -> StepPubEval(c, F)
    [] c.pc = "cpValidate" -> StepCopyValidate(c, F)
    [] c.pc = "cpMkdir" -> StepCopyMkdir(c, F)
    [] c.pc = "cpCopy" -> StepCopyOne(c, F)
    [] OTHER -> [c |-> c, F |-> F]

\* the paths a step wrote, added to the record of the call that took it
Tracked(c, r, ch) ==
  [c |-> [r.c EXCEPT !.w = r.c.w \cup ch,
                     !.xw = IF c.pc \in {"untar", "open", "copy"} THEN r.c.xw \cup ch
                            ELSE r.c.xw],
   F |-> r.F]

Traced(c, F, r) == Tracked(c, r, Changed(F, r.F))

\* one step of a call
Step(c, F, rsp, po) ==
  Traced(c, F, IF c.pc = "install" THEN StepRequest(c, F, rsp, po) ELSE StepPlain(c, F))

\* ------------------------------------------------------------------------
\* What the network may answer to the GET of a source
\* ------------------------------------------------------------------------

Fifo == Entry("fifo", <<"pipe">>, <<>>, 420, <<>>)

\* an archive whose entry name climbs out of the destination root
Escape(x) == <<Entry("reg", <<"..", "evil">>, <<>>, 420, <<x>>), Eoa>>

EscapeArchive == Escape("E")

\* an archive with a hardlink listed before its target
HardlinkArchive ==
  <<Entry("hard", <<"h">>, <<"b">>, 420, <<>>),
    Entry("reg", <<"b">>, <<>>, 420, <<"B">>),
    Eoa>>

\* the body the digest of the source pins
Pinned(name, platform) == tools[name].Sources[platform].Hash.sum[2]

\* the pinned body broken after k chunks by x
Broken(P, k, x) == SubSeq(P, 1, k) \o <<x>>

Bodies(name, platform) ==
  LET P == Pinned(name, platform) IN
    {P}
    \cup {Broken(P, k, IoErr) : k \in 0..(Len(P) - 1)}
    \cup {Broken(P, 1, Junk)}
    \cup (IF tools[name].Sources[platform].URL.targz
            THEN {Broken(P, 1, Fifo), EscapeArchive, HardlinkArchive}
            ELSE {SubSeq(P, 1, 1)})

\* an archive whose symlink entry is named onto the docker destination dst
PlantArchive(dst) == <<Entry("sym", <<"..">> \o dst, <<"planted">>, 511, <<>>), Eoa>>

\* the body of a server's error answer
ErrorPage == <<Data("not found")>>

\* the pinned body followed by more bytes
Trailing(name, platform) == Pinned(name, platform) \o <<Junk>>

\* the answers to the GET request: a transport error, or a body and the
\* number of chunks read ahead of the archive's end
Responses(name, platform) ==
  {[terr |-> TRUE, body |-> <<>>, ahead |-> 0, status |-> ""]}
  \cup {[terr |-> FALSE, body |-> b, ahead |-> 0, status |-> "200"] :
          b \in Bodies(name, platform)}
  \cup {[terr |-> FALSE, body |-> Trailing(name, platform), ahead |-> a, status |-> "200"] :
          a \in {0, 1}}
  \cup {[terr |-> FALSE, body |-> b, ahead |-> 0, status |-> "404"] :
          b \in {ErrorPage, Pinned(name, platform)}}
  \cup (IF platform.OS = dockerOS /\ tools[name].Sources[platform].URL.targz
          THEN {[terr |-> FALSE, body |-> PlantArchive(dst), ahead |-> 0, status |-> "200"] :
                  dst \in DOMAIN Effective(name, platform)}
          ELSE {})

NoResponse == [terr |-> TRUE, body |-> <<>>, ahead |-> 0, status |-> ""]

\* the answers tried when two calls run at the same time
ConcResponses(name, platform) ==
  {[terr |-> FALSE, body |-> b, ahead |-> 0, status |-> "200"] :
     b \in {Pinned(name, platform)}
           \cup (IF tools[name].Sources[platform].URL.targz
                   THEN {Escape(name), HardlinkArchive} ELSE {})}

\* ------------------------------------------------------------------------
\* The state machine
\* ------------------------------------------------------------------------

\* the callers that may run ensure at the same time
Procs == {1, 2}

\* the tool names callers ask for: those of the catalog and one that is not
\* the tools whose Hash string hasher does not accept
Misconfigured == {n \in Names : \E pl \in DOMAIN tools[n].Sources :
                                  ~HasherOk(tools[n].Sources[pl].Hash)}

\* the tools that map no binary on any platform
Unmapped == {n \in Names : \A pl \in DOMAIN tools[n].Sources : Effective(n, pl) = EmptyFn}

\* the regular files the pinned body of the source puts into the tool directory
Provided(n, pl) ==
  IF tools[n].Sources[pl].URL.targz
    THEN {e.name : e \in {tools[n].Sources[pl].Hash.sum[2][j] :
                            j \in DOMAIN tools[n].Sources[pl].Hash.sum[2]} \ {Eoa}}
    ELSE {<<tools[n].Sources[pl].URL.base>>}

\* the tools that map a binary to a file their pinned body does not hold
Incomplete ==
  {n \in Names : \E pl \in DOMAIN tools[n].Sources :
                   \E dst \in DOMAIN Effective(n, pl) : Effective(n, pl)[dst] \notin Provided(n, pl)}

\* catalog entries of a kind the catalog of the source has none of
Unusual == Misconfigured \cup Unmapped \cup Incomplete

\* the tool names callers ask for: the usual ones and one not in the catalog
Requested == (Names \ Unusual) \cup {"unknown"}

Keys == {<<n, pl>> \in Names \X {linuxAMD64, dockerAMD64} : pl \in DOMAIN tools[n].Sources}

NoKey == <<"", linuxAMD64>>

\* changes made to the filesystem from outside the program, at most
MaxExternal == 1

\* ensure calls started in one run, at most
MaxCalls == 2

VARIABLES
  fs,       \* the filesystem
  calls,    \* calls[p]: the ensure call of caller p
  quiet,    \* the key whose ensure returned success with nothing happening since
  started,  \* number of calls started
  external, \* number of changes made from outside
  link,     \* the docker link under study: tool, destination, source, stage
  run,      \* the run of InstallAll: host, tools left, position, result
  znet      \* the znet command under way: apps, saved spec, home directory, result

vars == <<fs, calls, quiet, started, external, link, run, znet>>

\* InstallAll is not running
\* a nil error
nil == "nil"

\* no znet command is running
NoZnet == [pc |-> "none", apps |-> <<>>, saved |-> <<>>, saves |-> 0, todo |-> {},
           stop |-> nil, save |-> nil, retErr |-> nil, ret |-> "",
           home |-> "absent", home0 |-> "absent", target |-> nil, i |-> 0,
           outs |-> <<>>, err |-> nil, cancelled |-> FALSE, timer |-> FALSE]

NoRun == [pc |-> "none", host |-> linuxAMD64, left |-> {}, tool |-> "", made |-> {},
          ret |-> ""]

\* no link is under study
NoLink == [pc |-> "none", tool |-> "", dst |-> <<>>, src |-> <<>>, root |-> <<>>]

KeyOf(c) == <<c.tool, c.platform>>

InFlight(c) == c.pc \notin {"idle", "done"}

\* the filesystem at the start: the working directory and nothing else
Init_fs == [n |-> (Cwd :> DirNode(493)), i |-> EmptyFn]

Init ==
  /\ fs = Init_fs
  /\ calls = [p \in Procs |-> NoCall]
  /\ quiet = NoKey
  /\ started = 0
  /\ external = 0
  /\ link = NoLink
  /\ run = NoRun
  /\ znet = NoZnet

\* the filesystem before the calls now in flight began
Before(p) ==
  IF \E q \in Procs \ {p} : InFlight(calls[q])
    THEN calls[CHOOSE q \in Procs \ {p} : InFlight(calls[q])].pre
    ELSE fs

\* the call ensurePlatform(ctx, tool, platform) after its two lookups
Begin(name, platform, ord, pre, again, F) ==
  StepEnsure([NoCall EXCEPT !.pc = "ensure", !.tool = name, !.platform = platform,
                            !.order = ord, !.pre = pre, !.rep = again],
             F).c

\* a call that has returned keeps the filesystem it returned on
Landed(c, F) == IF c.pc = "done" THEN [c EXCEPT !.post = F] ELSE c

\* ensurePlatform(ctx, tool, platform) is entered by caller p and does its
\* two lookups; ord is the order in which its range over the mapping runs
Enter(p, name, platform) ==
  /\ ~InFlight(calls[p])
  /\ started < MaxCalls
  /\ \E ord \in (IF <<name, platform>> \in Keys
                   THEN Perms(DOMAIN Effective(name, platform)) ELSE {<<>>}) :
       calls' = [q \in Procs |->
                   IF q = p
                     THEN Landed([Begin(name, platform, ord, Before(p),
                                        quiet = <<name, platform>>, fs)
                                    EXCEPT !.solo = \A o \in Procs : ~InFlight(calls[o])],
                                 fs)
                   ELSE IF InFlight(calls[q]) THEN [calls[q] EXCEPT !.solo = FALSE]
                   ELSE calls[q]]
  /\ quiet' = IF quiet = <<name, platform>> THEN quiet ELSE NoKey
  /\ started' = started + 1
  /\ UNCHANGED <<fs, external, link, run, znet>>

\* EnsureLocal(ctx, tool)
EnsureLocal(p) == \E name \in Requested : Enter(p, name, [OS |-> GOOS, Arch |-> GOARCH])

\* EnsureDocker(ctx, tool)
EnsureDocker(p) == \E name \in Requested : Enter(p, name, [OS |-> dockerOS, Arch |-> GOARCH])

\* the call of caller p and the filesystem after a step with result r
Move(p, r) ==
  /\ calls' = [calls EXCEPT ![p] = Landed(r.c, r.F)]
  /\ fs' = r.F
  /\ quiet' = IF r.c.op # "ensure" THEN NoKey
              ELSE IF r.c.pc = "done" /\ r.c.ret = "ok" THEN KeyOf(r.c)
              ELSE IF quiet = KeyOf(r.c) THEN quiet ELSE NoKey

Advance(p, r) == Move(p, r) /\ UNCHANGED <<started, external, link, run, znet>>

\* a step of the call of caller p other than the request
Do(p) ==
  /\ InFlight(calls[p])
  /\ calls[p].pc # "install"
  /\ Advance(p, Step(calls[p], fs, NoResponse, <<>>))

\* the GET request of install
Request(p) ==
  /\ calls[p].pc = "install"
  /\ \E rsp \in Responses(calls[p].tool, calls[p].platform),
        po \in Perms(DOMAIN Effective(calls[p].tool, calls[p].platform)) :
       Advance(p, Step(calls[p], fs, rsp, po))

\* the GET request of install when two calls run at the same time
RequestConc(p) ==
  /\ calls[p].pc = "install"
  /\ \E rsp \in ConcResponses(calls[p].tool, calls[p].platform),
        po \in Perms(DOMAIN Effective(calls[p].tool, calls[p].platform)) :
       Advance(p, Step(calls[p], fs, rsp, po))

\* the process is killed: every call in flight stops where it is
Kill ==
  /\ \E p \in Procs : InFlight(calls[p])
  /\ calls' = [p \in Procs |->
                 IF InFlight(calls[p])
                   THEN [calls[p] EXCEPT !.pc = "idle", !.ret = "killed", !.at = calls[p].pc]
                   ELSE calls[p]]
  /\ quiet' = NoKey
  /\ UNCHANGED <<fs, started, external, link, run, znet>>

\* a result that has been returned is no longer the latest event
Settle(c) == IF c.pc = "done" THEN [c EXCEPT !.pc = "idle"] ELSE c

\* somebody outside the program removes a tool directory
ExternalRemoveDir ==
  /\ external < MaxExternal
  /\ \A p \in Procs : ~InFlight(calls[p])
  /\ \E k \in Keys :
       /\ toolDir(k[1], k[2]) \in DOMAIN fs.n
       /\ fs' = RemoveAll(fs, toolDir(k[1], k[2])).F
  /\ calls' = [p \in Procs |-> Settle(calls[p])]
  /\ quiet' = NoKey
  /\ external' = external + 1
  /\ UNCHANGED <<started, link, run, znet>>

\* somebody outside the program removes a published link
ExternalRemoveLink ==
  /\ external < MaxExternal
  /\ \A p \in Procs : ~InFlight(calls[p])
  /\ \E k \in Keys : \E dst \in DOMAIN Effective(k[1], k[2]) :
       /\ DstDir(k[2]) \o dst \in DOMAIN fs.n
       /\ fs' = Remove(fs, DstDir(k[2]) \o dst).F
  /\ calls' = [p \in Procs |-> Settle(calls[p])]
  /\ quiet' = NoKey
  /\ external' = external + 1
  /\ UNCHANGED <<started, link, run, znet>>

\* somebody outside the program points a published link at the working
\* directory
ExternalRetargetLink ==
  /\ external < MaxExternal
  /\ \A p \in Procs : ~InFlight(calls[p])
  /\ \E k \in Keys : \E dst \in DOMAIN Effective(k[1], k[2]) :
       /\ DstDir(k[2]) \o dst \in DOMAIN fs.n
       /\ fs' = Symlink(Remove(fs, DstDir(k[2]) \o dst).F, TRUE, Cwd,
                        DstDir(k[2]) \o dst).F
  /\ calls' = [p \in Procs |-> Settle(calls[p])]
  /\ quiet' = NoKey
  /\ external' = external + 1
  /\ UNCHANGED <<started, link, run, znet>>

\* one caller at a time, and the outside world
Next ==
  \/ EnsureLocal(1)
  \/ EnsureDocker(1)
  \/ Do(1)
  \/ Request(1)
  \/ ExternalRemoveDir
  \/ ExternalRemoveLink
  \/ ExternalRetargetLink

Spec == Init /\ [][Next]_vars

\* what an earlier build of the program, whose catalog had the digest of
\* misc right, left of it for the platform: the artifact and its link
Earlier(F, platform) ==
  Symlink(MkdirAll(WriteAt(NewFile(MkdirAll(F, toolDir("misc", platform), 448).F,
                                   toolDir("misc", platform) \o <<"misc">>, 448),
                           toolDir("misc", platform) \o <<"misc">>, 0, <<"M">>),
                   DstDir(platform) \o <<"bin">>, 448).F,
          TRUE, toolDir("misc", platform) \o <<"misc">>,
          DstDir(platform) \o <<"bin", "misc">>).F

\* the cache is empty or holds what an earlier build installed
InitCatalog ==
  /\ fs \in {Init_fs, Earlier(Earlier(Init_fs, linuxAMD64), dockerAMD64)}
  /\ calls = [p \in Procs |-> NoCall]
  /\ quiet = NoKey
  /\ started = 0
  /\ external = 0
  /\ link = NoLink
  /\ run = NoRun
  /\ znet = NoZnet

\* EnsureLocal and EnsureDocker for a tool of the unusual entries
EnsureUnusual(p) ==
  \E name \in Unusual, platform \in {linuxAMD64, dockerAMD64} :
    Enter(p, name, platform)

NextCatalog ==
  \/ EnsureUnusual(1)
  \/ Do(1)
  \/ Request(1)
  \/ ExternalRemoveDir
  \/ ExternalRemoveLink

\* one caller at a time asking for the tools of the unusual entries
SpecCatalog == InitCatalog /\ [][NextCatalog]_vars

\* ------------------------------------------------------------------------
\* InstallAll over the catalog of the source: for every tool, which
\* contexts it is for and which platforms it has a source for.
\* ------------------------------------------------------------------------

Catalog ==
  ("go" :> [ForLocal |-> TRUE, ForDocker |-> FALSE,
            Sources |-> {linuxAMD64, darwinAMD64, darwinARM64}])
  @@ ("golangci" :> [ForLocal |-> TRUE, ForDocker |-> FALSE,
                     Sources |-> {linuxAMD64, darwinAMD64, darwinARM64}])
  @@ ("ignite" :> [ForLocal |-> TRUE, ForDocker |-> FALSE,
                   Sources |-> {linuxAMD64, darwinAMD64, darwinARM64}])
  @@ ("cosmovisor" :> [ForLocal |-> FALSE, ForDocker |-> TRUE,
                       Sources |-> {dockerAMD64, dockerARM64}])
  @@ ("libwasmvm_muslc" :> [ForLocal |-> FALSE, ForDocker |-> TRUE,
                            Sources |-> {dockerAMD64, dockerARM64}])
  @@ ("gaia" :> [ForLocal |-> FALSE, ForDocker |-> TRUE,
                 Sources |-> {dockerAMD64, dockerARM64}])
  @@ ("relayer" :> [ForLocal |-> FALSE, ForDocker |-> TRUE,
                    Sources |-> {dockerAMD64, dockerARM64}])
  @@ ("cored-v0.1.1" :> [ForLocal |-> FALSE, ForDocker |-> TRUE,
                         Sources |-> {dockerAMD64, dockerARM64}])

\* the hosts the build runs on: runtime.GOOS and runtime.GOARCH
Hosts == {linuxAMD64, darwinAMD64, darwinARM64}

\* EnsureDocker with the platform of the host itself
HostPlatform(host) == host

\* the platform EnsureDocker asks for: Platform{OS: dockerOS, Arch: runtime.GOARCH}
EnsureDockerPlatform(host) == [OS |-> dockerOS, Arch |-> host.Arch]

\* the platform EnsureLocal asks for: Platform{OS: runtime.GOOS, Arch: runtime.GOARCH}
EnsureLocalPlatform(host) == host

\* the two lookups of ensurePlatform in the catalog
Lookup(name, platform) ==
  IF name \notin DOMAIN Catalog THEN "err:undefined"
  ELSE IF platform \notin Catalog[name].Sources THEN "panic"
  ELSE "found"

InitAll ==
  /\ fs = Init_fs
  /\ calls = [p \in Procs |-> NoCall]
  /\ quiet = NoKey
  /\ started = 0
  /\ external = 0
  /\ link = NoLink
  /\ znet = NoZnet
  /\ \E host \in Hosts :
       run = [pc |-> "range", host |-> host, left |-> DOMAIN Catalog, tool |-> "",
              made |-> {}, ret |-> ""]

\* the run after an ensure call for the platform: the lookup fails, or the
\* call returns an error (InstallAll returns it) or nil (goes on at pc)
Ensured(ctx, platform, pc) ==
  IF Lookup(run.tool, platform) # "found"
    THEN run' \in {[run EXCEPT !.pc = "done", !.ret = Lookup(run.tool, platform),
                                !.made = run.made \cup {<<run.tool, ctx>>}]}
    ELSE run' \in {[run EXCEPT !.pc = pc, !.made = run.made \cup {<<run.tool, ctx>>}],
                   [run EXCEPT !.pc = "done", !.ret = "err",
                               !.made = run.made \cup {<<run.tool, ctx>>}]}

\* for tool := range tools: the next tool, in any order, or return nil
AllRange ==
  /\ run.pc = "range"
  /\ IF run.left = {} THEN run' = [run EXCEPT !.pc = "done", !.ret = "ok"]
     ELSE \E tool \in run.left :
            run' = [run EXCEPT !.pc = "local", !.tool = tool, !.left = run.left \ {tool}]
  /\ UNCHANGED <<fs, calls, quiet, started, external, link, znet>>

\* if tools[tool].ForLocal { EnsureLocal(ctx, tool) }
AllLocal ==
  /\ run.pc = "local"
  /\ IF Catalog[run.tool].ForLocal
       THEN Ensured("local", EnsureLocalPlatform(run.host), "docker")
       ELSE run' = [run EXCEPT !.pc = "docker"]
  /\ UNCHANGED <<fs, calls, quiet, started, external, link, znet>>

\* if tools[tool].ForDocker { EnsureDocker(ctx, tool) }
AllDocker ==
  /\ run.pc = "docker"
  /\ IF Catalog[run.tool].ForDocker
       THEN Ensured("docker", EnsureDockerPlatform(run.host), "range")
       ELSE run' = [run EXCEPT !.pc = "range"]
  /\ UNCHANGED <<fs, calls, quiet, started, external, link, znet>>

NextAll == AllRange \/ AllLocal \/ AllDocker

\* InstallAll on each host, every ensure call succeeding or failing
SpecAll == InitAll /\ [][NextAll]_vars

\* ------------------------------------------------------------------------
\* znet Stop: stop the target, then, in the deferred function, mark every
\* app of the spec as stopped and save the spec.
\* ------------------------------------------------------------------------

AppStatusStopped == "stopped"

\* the statuses an app of the spec may be in
AppStatuses == {"notdeployed", "running", AppStatusStopped}

\* the apps of the spec
AppNames == {"coredev-00", "gaia"}

\* the outcomes of target.Stop(ctx)
StopOutcomes == {nil, "err:stop", "panic"}

\* the outcomes of spec.Save()
SaveOutcomes == {nil, "err:save", "panic"}

\* the deferred function keeps the error of the body
StopRetErrFirst(retErr, err) == retErr

\* if err := spec.Save(); retErr == nil { retErr = err }
StopRetErr(retErr, err) == IF retErr = nil THEN err ELSE retErr

\* app.SetInfo(infra.DeploymentInfo{Status: status})
SetInfo(apps, app, status) == [apps EXCEPT ![app] = status]

\* what Stop hands to its caller: the panic goes on after the deferred function
StopReturned(z, save, retErr) ==
  IF z.stop = "panic" \/ save = "panic" THEN "panic" ELSE retErr

InitStop ==
  /\ fs = Init_fs
  /\ calls = [p \in Procs |-> NoCall]
  /\ quiet = NoKey
  /\ started = 0
  /\ external = 0
  /\ link = NoLink
  /\ run = NoRun
  /\ \E apps \in [AppNames -> AppStatuses] :
       \E saved \in {<<>>, <<apps>>} :
         znet = [NoZnet EXCEPT !.pc = "target", !.apps = apps, !.saved = saved]

\* target.Stop(ctx): returns nil or an error, or panics; the target may
\* have set the info of any app meanwhile
StopTarget ==
  /\ znet.pc = "target"
  /\ \E out \in StopOutcomes, apps \in [AppNames -> AppStatuses] :
       znet' = [znet EXCEPT !.pc = "defer", !.stop = out, !.apps = apps,
                            !.retErr = IF out = "panic" THEN nil ELSE out,
                            !.todo = AppNames]
  /\ UNCHANGED <<fs, calls, quiet, started, external, link, run>>

\* for _, app := range spec.Apps { app.SetInfo(...) }
StopSetInfo ==
  /\ znet.pc = "defer"
  /\ \E app \in znet.todo :
       znet' = [znet EXCEPT !.apps = SetInfo(znet.apps, app, AppStatusStopped),
                            !.todo = znet.todo \ {app}]
  /\ UNCHANGED <<fs, calls, quiet, started, external, link, run>>

\* spec.Save() at the end of the deferred function, then the return
StopSave ==
  /\ znet.pc = "defer"
  /\ znet.todo = {}
  /\ \E save \in SaveOutcomes :
       znet' = [znet EXCEPT !.pc = "done", !.save = save, !.saves = znet.saves + 1,
                            !.saved = IF save = nil THEN <<znet.apps>> ELSE znet.saved,
                            !.retErr = StopRetErr(znet.retErr, save),
                            !.ret = StopReturned(znet, save,
                                                 StopRetErr(znet.retErr, save))]
  /\ UNCHANGED <<fs, calls, quiet, started, external, link, run>>

NextStop == StopTarget \/ StopSetInfo \/ StopSave

\* one call of Stop on any spec, with every outcome of the target and of the save
SpecStop == InitStop /\ [][NextStop]_vars

\* ------------------------------------------------------------------------
\* znet Remove: remove the target, then delete the home directory, trying
\* a few times with a second between the attempts.
\* ------------------------------------------------------------------------

\* for i := 0; i < 3; i++
Attempts == 3

\* the home directory: as the environment left it, partly deleted, or gone
HomeStates == {"present", "partial", "absent"}

\* the outcomes of target.Remove(ctx)
TargetOutcomes == {nil, "err:target", "panic"}

\* the errors of os.RemoveAll other than os.ErrNotExist
RemoveErrors == {"err:busy", "err:perm"}

ErrNotExist == "err:notexist"

\* ctx.Err() of a cancelled context
CtxErr == "err:context"

\* an attempt counts as done only when RemoveAll returns nil
RemovedOnlyNil(err) == err = nil

\* err == nil || errors.Is(err, os.ErrNotExist)
Removed(err) == err = nil \/ err = ErrNotExist

\* errors.WithStack(err): the same error, with the stack attached
WithStack(err) == err

\* the home directory after os.RemoveAll returned err: gone, or what a
\* failed deletion may leave (nothing deleted, or a part)
HomeAfter(home, err) ==
  IF Removed(err) THEN {"absent"}
  ELSE IF home = "absent" THEN {"absent"}
  ELSE {home, "partial"}

InitRemove ==
  /\ fs = Init_fs
  /\ calls = [p \in Procs |-> NoCall]
  /\ quiet = NoKey
  /\ started = 0
  /\ external = 0
  /\ link = NoLink
  /\ run = NoRun
  /\ \E home \in {"present", "absent"} :
       znet = [NoZnet EXCEPT !.pc = "target", !.home = home, !.home0 = home]

\* if err := target.Remove(ctx); err != nil { return err }
RemoveTarget ==
  /\ znet.pc = "target"
  /\ \E out \in TargetOutcomes :
       znet' = [znet EXCEPT !.target = out,
                            !.pc = IF out = nil THEN "attempt" ELSE "done",
                            !.ret = IF out = nil THEN "" ELSE out]
  /\ UNCHANGED <<fs, calls, quiet, started, external, link, run>>

\* err = os.RemoveAll(config.HomeDir): return nil, or go on to the select
RemoveAttempt ==
  /\ znet.pc = "attempt"
  /\ znet.i < Attempts
  /\ \E err \in {nil, ErrNotExist} \cup RemoveErrors :
       \E home \in HomeAfter(znet.home, err) :
         znet' = [znet EXCEPT !.err = err, !.home = home,
                              !.outs = Append(znet.outs, err),
                              !.timer = FALSE,
                              !.pc = IF Removed(err) THEN "done" ELSE "select",
                              !.ret = IF Removed(err) THEN nil ELSE ""]
  /\ UNCHANGED <<fs, calls, quiet, started, external, link, run>>

\* case <-ctx.Done(): return ctx.Err()
RemoveCtxDone ==
  /\ znet.pc = "select"
  /\ znet.cancelled
  /\ znet' = [znet EXCEPT !.pc = "done", !.ret = CtxErr]
  /\ UNCHANGED <<fs, calls, quiet, started, external, link, run>>

\* case <-time.After(time.Second): i++, and after the loop
\* return errors.WithStack(err)
RemoveTimeAfter ==
  /\ znet.pc = "select"
  /\ znet.timer
  /\ znet' = [znet EXCEPT !.i = znet.i + 1,
                          !.pc = IF znet.i + 1 < Attempts THEN "attempt" ELSE "done",
                          !.ret = IF znet.i + 1 < Attempts THEN ""
                                  ELSE WithStack(znet.err)]
  /\ UNCHANGED <<fs, calls, quiet, started, external, link, run>>

\* the second of time.After has passed
TimerFires ==
  /\ znet.pc = "select"
  /\ ~znet.timer
  /\ znet' = [znet EXCEPT !.timer = TRUE]
  /\ UNCHANGED <<fs, calls, quiet, started, external, link, run>>

\* the caller cancels the context while Remove runs
Cancel ==
  /\ znet.pc \in {"target", "attempt", "select"}
  /\ ~znet.cancelled
  /\ znet' = [znet EXCEPT !.cancelled = TRUE]
  /\ UNCHANGED <<fs, calls, quiet, started, external, link, run>>

\* the steps of Remove and of its timer
RemoveSteps == RemoveTarget \/ RemoveAttempt \/ RemoveCtxDone \/ RemoveTimeAfter \/ TimerFires

NextRemove ==
  \/ RemoveTarget
  \/ RemoveAttempt
  \/ RemoveCtxDone
  \/ RemoveTimeAfter
  \/ TimerFires
  \/ Cancel

\* one call of Remove; target.Remove and os.RemoveAll return, the timer
\* fires, the goroutine is scheduled
SpecRemove == InitRemove /\ [][NextRemove]_vars /\ WF_vars(RemoveSteps)

\* one caller at a time in a process that may be killed
NextCrash ==
  \/ EnsureLocal(1)
  \/ EnsureDocker(1)
  \/ Do(1)
  \/ Request(1)
  \/ Kill
  \/ ExternalRemoveDir
  \/ ExternalRemoveLink

SpecCrash == Init /\ [][NextCrash]_vars

\* caller p has made no call yet, and caller 1 is the first to call
First(p) == calls[p].pc = "idle" /\ (p = 1 \/ calls[1].pc # "idle")

\* two callers, one call each, whose calls interleave step by step
NextConc ==
  \E p \in Procs :
    \/ First(p) /\ EnsureLocal(p)
    \/ First(p) /\ EnsureDocker(p)
    \/ Do(p)
    \/ RequestConc(p)

SpecConc == Init /\ [][NextConc]_vars

\* the directory binaries are copied to, and a file it holds at the start
OutDir == <<"out">>

OldFile == OutDir \o <<"x">>

\* the directory the docker links of the tools are published in
DockerBin == CacheDir \o <<PlatformString(DockerPlatform), "bin">>

\* the destination paths CopyToolBinaries is called with
CopyPaths == {OutDir, <<"fresh", "dir">>, DockerBin}

\* the lists of binaryNames CopyToolBinaries is called with
NameLists ==
  {<<>>, <<"x">>, <<"gaiad">>, <<"nope">>, <<"x", "x">>, <<"x", "nope">>, <<"nope", "x">>,
   <<"gaiad", "x">>}

\* the filesystem at the start holds out/x, longer than any artifact
InitCopy ==
  /\ fs = WriteAt(NewFile(MkdirAll(Init_fs, OutDir, 493).F, OldFile, 420), OldFile, 0,
                  <<"old", "old", "old">>)
  /\ calls = [p \in Procs |-> NoCall]
  /\ quiet = NoKey
  /\ started = 0
  /\ external = 0
  /\ link = NoLink
  /\ run = NoRun
  /\ znet = NoZnet

\* CopyToolBinaries(tool, path, binaryNames...) is called by caller p and
\* runs up to the end of its validation loop
CopyToolBinaries(p) ==
  /\ calls[p] = NoCall
  /\ \A q \in Procs : ~InFlight(calls[q])
  /\ \E name \in Requested, path \in CopyPaths, names \in NameLists :
       Advance(p, Step([NoCall EXCEPT !.pc = "cpValidate", !.op = "copy", !.tool = name,
                                      !.path = path, !.names = names, !.pre = fs],
                       fs, NoResponse, <<>>))

\* caller 1 installs, then caller 2 copies once
NextCopy ==
  \/ calls[2] = NoCall /\ EnsureLocal(1)
  \/ calls[2] = NoCall /\ EnsureDocker(1)
  \/ Do(1)
  \/ RequestConc(1)
  \/ CopyToolBinaries(2)
  \/ Do(2)

SpecCopy == InitCopy /\ [][NextCopy]_vars

\* the entries archives handed to untar are made of
DirEntry == Entry("dir", <<"d">>, <<>>, 493, <<>>)

RegEntry == Entry("reg", <<"d", "f">>, <<>>, 420, <<"X">>)

SymEntry == Entry("sym", <<"s">>, <<"d", "f">>, 420, <<>>)

LinkEntry == Entry("hard", <<"h">>, <<"d", "f">>, 420, <<>>)

UntarEntries ==
  {DirEntry, RegEntry, SymEntry, LinkEntry,
   Entry("reg", <<"b">>, <<>>, 420, <<"B">>),
   Entry("reg", <<"b">>, <<>>, 420, <<"L1", "L2">>),
   Entry("hard", <<"h">>, <<"b">>, 420, <<>>)}

\* entries in one archive, at most
MaxEntries == 4

\* the archives untar is run on: entries in any order, none twice
Archives ==
  {a \o <<Eoa>> :
     a \in {s \in UNION {[1..k -> UntarEntries] : k \in 0..MaxEntries} :
              \A x, y \in DOMAIN s : s[x] = s[y] => x = y}}

\* the tool whose directory is the destination root of the untar runs
UntarTool == "demo"

\* untar(reader, path) is entered with path an existing empty directory
InitUntar ==
  /\ fs = MkdirAll(Init_fs, toolDir(UntarTool, linuxAMD64), 448).F
  /\ \E a \in Archives :
       calls = [p \in Procs |->
                  IF p = 1
                    THEN [NoCall EXCEPT !.pc = "untar", !.tool = UntarTool,
                                        !.platform = linuxAMD64, !.body = a, !.pos = 1,
                                        !.pre = fs]
                    ELSE NoCall]
  /\ quiet = NoKey
  /\ started = 1
  /\ external = 0
  /\ link = NoLink
  /\ run = NoRun
  /\ znet = NoZnet

\* one round of the loop of untar
Untar(p) ==
  /\ calls[p].pc = "untar"
  /\ Advance(p, Step(calls[p], fs, NoResponse, <<>>))

NextUntar == Untar(1)

\* untar alone, on every archive of Archives
SpecUntar == InitUntar /\ [][NextUntar]_vars

\* ------------------------------------------------------------------------
\* The docker link of the publish loop for destinations of every depth, and
\* the cache root mounted at another path.
\* ------------------------------------------------------------------------

LinkNames == {"bin", "lib", "x"}

\* destinations of one to three components
LinkDsts ==
  {<<a>> : a \in LinkNames}
    \cup {<<a, b>> : a \in LinkNames, b \in LinkNames}
    \cup {<<a, b, c>> : a \in LinkNames, b \in LinkNames, c \in LinkNames}

LinkSrcs == {<<"b">>, <<"d", "b">>}

\* where a container may mount the cache root
Mounts == {<<"mnt">>, <<"var", "cache", "crust">>}

dockerAMD64Dir(root) == root \o <<PlatformString(dockerAMD64)>>

\* the artifact src of the tool is in place under the cache root
WithArtifact(name, src) ==
  NewFile(MkdirAll(Init_fs, Parent(toolDir(name, dockerAMD64) \o src), 448).F,
          toolDir(name, dockerAMD64) \o src, 420)

InitLink ==
  /\ \E name \in Names \ Unusual, dst \in LinkDsts, src \in LinkSrcs :
       /\ link = [pc |-> "artifact", tool |-> name, dst |-> dst, src |-> src,
                  root |-> CacheDir]
       /\ fs = WithArtifact(name, src)
  /\ calls = [p \in Procs |-> NoCall]
  /\ quiet = NoKey
  /\ started = 0
  /\ external = 0
  /\ run = NoRun
  /\ znet = NoZnet

\* publish for the pair dst, src: MkdirAll of the parent, then os.Symlink
PublishLink ==
  /\ link.pc = "artifact"
  /\ fs' = Symlink(MkdirAll(fs, Parent(DstDir(dockerAMD64) \o link.dst), 448).F, FALSE,
                   DockerLink(link.tool, link.dst, link.src),
                   DstDir(dockerAMD64) \o link.dst).F
  /\ link' = [link EXCEPT !.pc = "linked"]
  /\ UNCHANGED <<calls, quiet, started, external, run, znet>>

\* the tree below the cache root seen at the mount point to
Mounted(F, to) ==
  [n |-> [q \in {SubSeq(to, 1, j) : j \in 1..Len(to)}
                 \cup {to \o SubSeq(p, Len(CacheDir) + 1, Len(p)) :
                         p \in {x \in DOMAIN F.n : IsPrefix(CacheDir, x)}}
            |-> IF IsPrefix(to, q)
                  THEN F.n[CacheDir \o SubSeq(q, Len(to) + 1, Len(q))]
                  ELSE DirNode(493)],
   i |-> F.i]

\* the cache root is bind-mounted at another absolute path
Mount ==
  /\ link.pc = "linked"
  /\ \E to \in Mounts :
       /\ fs' = Mounted(fs, to)
       /\ link' = [link EXCEPT !.pc = "mounted", !.root = to]
  /\ UNCHANGED <<calls, quiet, started, external, run, znet>>

NextLink == PublishLink \/ Mount

SpecLink == InitLink /\ [][NextLink]_vars

\* ------------------------------------------------------------------------
\* Properties
\* ------------------------------------------------------------------------

Returned(c) == c.pc = "done"

Installed(c) == Returned(c) /\ c.ret = "ok" /\ c.reqs > 0

TreeAbsent(F, dir) == \A q \in DOMAIN F.n : ~IsPrefix(dir, q)

\* C1: an ensure call that immediately follows a successful ensure call for
\* the same (tool, platform), with nothing else touching the filesystem in
\* between, issues no request, changes nothing and returns success.
C1_EnsureIdempotent ==
  \A p \in Procs :
    LET c == calls[p] IN
      (c.rep /\ (InFlight(c) \/ Returned(c))) =>
        /\ c.pc \in {"check", "done"}
        /\ c.reqs = 0
        /\ fs = c.pre
        /\ c.w = {}
        /\ (Returned(c) => c.ret = "ok")

C1_Witness ==
  \E p \in Procs :
    /\ calls[p].rep
    /\ Returned(calls[p])
    /\ calls[p].ret = "ok"
    /\ toolDir(calls[p].tool, calls[p].platform) \in DOMAIN fs.n

\* C2: install never succeeds with a body whose digest differs from the
\* declared one; when the digests differ it returns an error, has published
\* no destination and the version-qualified directory does not exist.
C2_DigestEnforced ==
  \A p \in Procs :
    LET c == calls[p] IN
      /\ Installed(c) => Sha256(c.h) = Source(c).Hash.sum
      /\ (Returned(c) /\ c.ret = "err:checksum") =>
           /\ Sha256(c.h) # Source(c).Hash.sum
           /\ c.pub = {}
           /\ toolDir(c.tool, c.platform) \notin DOMAIN fs.n

C2_Witness ==
  \E p \in Procs :
    /\ Returned(calls[p])
    /\ calls[p].ret = "err:checksum"
    /\ calls[p].xw # {}

\* C3: when install returns an error after the tool directory was recreated
\* (read error, decoding error, unsupported entry, digest mismatch), nothing
\* is left at or below the version-qualified directory.
C3_FailedInstallLeavesNoDir ==
  \A p \in Procs :
    LET c == calls[p] IN
      (Returned(c) /\ c.ret \in {"err:save", "err:checksum"}) =>
        TreeAbsent(fs, toolDir(c.tool, c.platform))

C3_Witness ==
  \E p \in Procs :
    /\ Returned(calls[p])
    /\ calls[p].ret = "err:save"
    /\ \E q \in calls[p].xw : IsPrefix(toolDir(calls[p].tool, calls[p].platform), q)

\* an order in which the loop of ensurePlatform may range
SomeOrder(name, platform) == CHOOSE o \in Perms(DOMAIN Effective(name, platform)) : TRUE

\* the loop of ensurePlatform run until it returns or calls install
RECURSIVE RunCheck(_, _)
RunCheck(c, F) == IF c.pc = "check" THEN RunCheck(StepCheck(c, F).c, F) ELSE c

\* the installed-state check made on F reports "not installed"
ReportsNotInstalled(name, platform, F) ==
  RunCheck(Begin(name, platform, SomeOrder(name, platform), F, FALSE, F), F).pc = "install"

\* where install is between the removal of the tool directory and the
\* comparison of the digests
BeforeDigest == {"mkdir", "untar", "open", "copy", "sum"}

\* C4: if the process is killed during install, here anywhere between the
\* removal of the tool directory and the comparison of the digests, the next
\* installed-state check for that (tool, platform) reports "not installed",
\* whatever the filesystem was when the install began.
C4_KilledInstallReportsNotInstalled ==
  \A p \in Procs :
    (calls[p].ret = "killed" /\ calls[p].at \in BeforeDigest) =>
      ReportsNotInstalled(calls[p].tool, calls[p].platform, fs)

\* C5: after install returns success every destination of the effective
\* mapping is a symlink resolving to <toolDir>/<source>, a file of mode 0700.
C5_PublishPostcondition ==
  \A p \in Procs :
    LET c == calls[p] IN
      Installed(c) =>
        \A dst \in DOMAIN Effective(c.tool, c.platform) :
          LET d == DstDir(c.platform) \o dst
              a == toolDir(c.tool, c.platform) \o Effective(c.tool, c.platform)[dst]
          IN /\ d \in DOMAIN fs.n
             /\ fs.n[d].k = "link"
             /\ EvalSymlinks(fs, d) = [e |-> "", p |-> a]
             /\ fs.n[a].k = "file"
             /\ Stat(fs, a) = [e |-> "", mode |-> 448]

C5_Witness ==
  \E p \in Procs :
    /\ Installed(calls[p])
    /\ calls[p].tool = "demo"
    /\ calls[p].platform.OS = dockerOS

\* the path a destination must resolve to when the source-level Binaries
\* are laid over the tool-level ones
Overlaid(name, platform, dst) ==
  toolDir(name, platform) \o
    (IF dst \in DOMAIN tools[name].Sources[platform].Binaries
       THEN tools[name].Sources[platform].Binaries[dst]
       ELSE tools[name].Binaries[dst])

\* C6: whenever ensure returns success, by its check alone or after
\* publishing, every destination of the tool-level or of the source-level
\* Binaries resolves to its artifact, the source-level value on a collision.
C6_MergePrecedence ==
  \A p \in Procs :
    LET c == calls[p] IN
      (Returned(c) /\ c.ret = "ok") =>
        \A dst \in DOMAIN tools[c.tool].Binaries
                   \cup DOMAIN tools[c.tool].Sources[c.platform].Binaries :
          EvalSymlinks(fs, DstDir(c.platform) \o dst).p = Overlaid(c.tool, c.platform, dst)

C6_Witness ==
  \E p \in Procs :
    /\ calls[p].tool = "demo"
    /\ Returned(calls[p])
    /\ calls[p].ret = "ok"
    /\ calls[p].reqs = 0
    /\ EvalSymlinks(fs, Cwd \o <<"bin", "x">>).p = toolDir("demo", linuxAMD64) \o <<"b">>

\* the four entries of the archive, the directory first and the hardlink
\* ahead of its target
IsRoundTrip(body) ==
  /\ Len(body) = 5
  /\ body[1] = DirEntry
  /\ {body[j] : j \in 1..4} = {DirEntry, RegEntry, SymEntry, LinkEntry}
  /\ \E x, y \in 1..4 : x < y /\ body[x] = LinkEntry /\ body[y] = RegEntry

\* the four entries are under R with their kind, content and link target
Extracted(F, R) ==
  /\ {R \o <<"d">>, R \o <<"d", "f">>, R \o <<"s">>, R \o <<"h">>} \subseteq DOMAIN F.n
  /\ F.n[R \o <<"d">>].k = "dir"
  /\ F.n[R \o <<"d", "f">>].k = "file"
  /\ F.i[F.n[R \o <<"d", "f">>].ino].data = <<"X">>
  /\ F.n[R \o <<"s">>].k = "link"
  /\ EvalSymlinks(F, R \o <<"s">>) = [e |-> "", p |-> R \o <<"d", "f">>]
  /\ F.n[R \o <<"h">>].k = "file"
  /\ F.n[R \o <<"h">>].ino = F.n[R \o <<"d", "f">>].ino

\* C7: for an archive holding a directory (its first entry), a regular file,
\* a symlink and a hardlink that comes before the entry of its target, once
\* untar has returned the root R holds all four with the right kind, content
\* and link target, the hardlink and its target being one file.
C7_RoundTripExtraction ==
  \A p \in Procs :
    (calls[p].pc \in {"sum", "fail"} /\ IsRoundTrip(calls[p].body)) =>
      Extracted(fs, toolDir(calls[p].tool, calls[p].platform))

\* q is the cache root, above it or below it
AtCache(q) == IsPrefix(CacheDir, q) \/ IsPrefix(q, CacheDir)

\* q is a destination link of a local install or a directory leading to it
AtLocalLink(c, q) ==
  /\ c.platform.OS # dockerOS
  /\ \E dst \in DOMAIN Effective(c.tool, c.platform) : IsPrefix(q, Cwd \o dst)

\* C8: every path install creates or modifies lies under the cache root or
\* is a destination link of a local install; what the extraction writes lies
\* in the version-qualified directory, so that nothing a failed attempt
\* wrote is left after the cleanup.
C8_WriteConfinement ==
  \A p \in Procs :
    LET c == calls[p] IN
      KeyOf(c) \in Keys =>
        /\ \A q \in c.w : AtCache(q) \/ AtLocalLink(c, q)
        /\ \A q \in c.xw : IsPrefix(toolDir(c.tool, c.platform), q)
        /\ (Returned(c) /\ c.ret \in {"err:save", "err:checksum"}) =>
             \A q \in c.xw : q \notin DOMAIN fs.n

\* the errors install returns
InstallErrors == {"err:transport", "err:save", "err:checksum"}

\* the destination links of the catalog
Destinations ==
  UNION {{DstDir(k[2]) \o dst : dst \in DOMAIN Effective(k[1], k[2])} : k \in Keys}

\* C9: when install returns an error, every path under the cache root
\* outside the version-qualified directory of the call is as it was before
\* the call, and every destination link published before is unchanged and
\* resolves where it did.
C9_FailureFrame ==
  \A p \in Procs :
    LET c == calls[p] IN
      (Returned(c) /\ c.ret \in InstallErrors) =>
        /\ \A q \in Changed(c.pre, fs) :
             IsPrefix(CacheDir, q) =>
               \/ IsPrefix(toolDir(c.tool, c.platform), q)
               \/ IsPrefix(q, toolDir(c.tool, c.platform))
        /\ \A d \in Destinations :
             (d \in DOMAIN c.pre.n /\ c.pre.n[d].k = "link") =>
               /\ d \in DOMAIN fs.n
               /\ fs.n[d] = c.pre.n[d]
               /\ EvalSymlinks(fs, d) = EvalSymlinks(c.pre, d)

\* a call run from F to its return, alone
RECURSIVE RunCall(_, _, _, _)
RECURSIVE RunOn(_, _, _)
RunOn(r, rsp, po) == RunCall(r.c, r.F, rsp, po)

RunCall(c, F, rsp, po) ==
  IF ~InFlight(c) THEN [c |-> c, F |-> F] ELSE RunOn(Step(c, F, rsp, po), rsp, po)

\* the call c made on F alone, the network answering what it answered to c
Alone(c, F) ==
  RunCall(Begin(c.tool, c.platform, SomeOrder(c.tool, c.platform), F, FALSE, F), F,
          [terr |-> FALSE, body |-> c.body], SomeOrder(c.tool, c.platform))

Second(ra, b) == [F |-> Alone(b, ra.F).F, first |-> ra.c.ret, second |-> Alone(b, ra.F).c.ret]

\* the call a and then the call b, from F
OneAfterTheOther(a, b, F) == Second(Alone(a, F), b)

\* q is a directory above the tool directories or destinations of both calls
SharedParent(a, b, q) ==
  /\ \E x \in {toolDir(a.tool, a.platform)}
               \cup {DstDir(a.platform) \o dst : dst \in DOMAIN Effective(a.tool, a.platform)} :
       IsPrefix(q, x) /\ q # x
  /\ \E x \in {toolDir(b.tool, b.platform)}
               \cup {DstDir(b.platform) \o dst : dst \in DOMAIN Effective(b.tool, b.platform)} :
       IsPrefix(q, x) /\ q # x

\* C10: two ensure calls on distinct (tool, platform) pairs, however their
\* steps interleave, end in the filesystem and with the results of running
\* them one after the other, and the only paths both wrote, removed or
\* overwrote are shared parent directories.
C10_IndependentInstallsCommute ==
  LET a == calls[1]
      b == calls[2]
  IN (/\ Returned(a) /\ Returned(b)
      /\ KeyOf(a) \in Keys /\ KeyOf(b) \in Keys
      /\ KeyOf(a) # KeyOf(b)) =>
       /\ \A q \in a.w \cap b.w : SharedParent(a, b, q)
       /\ \/ OneAfterTheOther(a, b, a.pre) = [F |-> fs, first |-> a.ret, second |-> b.ret]
          \/ OneAfterTheOther(b, a, a.pre) = [F |-> fs, first |-> b.ret, second |-> a.ret]

\* the bytes the pinned body of a source holds for the artifact src
ArtifactBytes(name, platform, src) ==
  IF tools[name].Sources[platform].URL.targz
    THEN (CHOOSE e \in {Pinned(name, platform)[j] : j \in DOMAIN Pinned(name, platform)} :
            e.t = "reg" /\ e.name = src).data
    ELSE [j \in DOMAIN Pinned(name, platform) |-> Pinned(name, platform)[j].b]

\* every artifact of the effective mapping is in the tool directory, whole
Populated(F, name, platform) ==
  \A dst \in DOMAIN Effective(name, platform) :
    LET a == toolDir(name, platform) \o Effective(name, platform)[dst] IN
      /\ a \in DOMAIN F.n
      /\ F.n[a].k = "file"
      /\ F.i[F.n[a].ino].data = ArtifactBytes(name, platform, Effective(name, platform)[dst])

\* C11: two ensure calls for the same (tool, platform) that run at the same
\* time are not safe, one may return success on a tool directory the other
\* has removed or filled only in part; a call during which no other call was
\* in flight returns success only on a tool directory holding every artifact
\* whole.
C11_SerializedEnsureIsSafe ==
  \A p \in Procs :
    (Returned(calls[p]) /\ calls[p].ret = "ok" /\ calls[p].solo) =>
      Populated(calls[p].post, calls[p].tool, calls[p].platform)

C11_Witness ==
  /\ KeyOf(calls[1]) = KeyOf(calls[2])
  /\ \E p \in Procs :
       /\ Returned(calls[p])
       /\ calls[p].ret = "ok"
       /\ ~calls[p].solo
       /\ ~Populated(calls[p].post, calls[p].tool, calls[p].platform)

\* the call asks for a catalog tool on a platform it has no source for
Unsupported(c) == c.tool \in Names /\ c.platform \notin DOMAIN tools[c.tool].Sources

\* the call has been made and asks for a name the catalog does not hold
Unknown(c) == c.tool # "" /\ c.tool \notin Names

\* the call ended at once, without a request and without touching a file
EndedUntouched(c) ==
  /\ c.pc \in {"done", "idle"}
  /\ c.reqs = 0
  /\ c.w = {}
  /\ c.post = c.pre

\* C12: an ensure call for a catalog tool whose Sources has no entry for the
\* platform ends in a panic, not in a returned error, before any request is
\* issued and before any change to the filesystem.
C12_UnsupportedPlatformPanics ==
  \A p \in Procs :
    Unsupported(calls[p]) => (calls[p].ret = "panic" /\ EndedUntouched(calls[p]))

C12_Witness ==
  \E p \in Procs :
    /\ Unsupported(calls[p])
    /\ Returned(calls[p])
    /\ calls[p].tool = "go"
    /\ toolDir("go", linuxAMD64) \in DOMAIN fs.n

\* C13: an ensure call for a name that is not in the catalog ends in a
\* panic, as a call for an unsupported platform does, without a request and
\* without a change to the filesystem.
C13_UnknownToolPanics ==
  \A p \in Procs :
    Unknown(calls[p]) => (calls[p].ret = "panic" /\ EndedUntouched(calls[p]))

\* C13 as amended: an ensure call for a name that is not in the catalog
\* returns an ordinary error, not a panic, without a request and without a
\* change to the filesystem.
C13_UnknownToolReturnsError ==
  \A p \in Procs :
    Unknown(calls[p]) => (calls[p].ret = "err:undefined" /\ EndedUntouched(calls[p]))

C13_Witness ==
  \E p \in Procs :
    /\ Unknown(calls[p])
    /\ Returned(calls[p])
    /\ \E k \in Keys : toolDir(k[1], k[2]) \in DOMAIN fs.n

\* C14: if a name passed to CopyToolBinaries is absent from the name index
\* of the tool, the call returns the error naming a missing binary and has
\* created or modified nothing, the destination directory included, also
\* when valid names come first in the list.
C14_ValidationBeforeAnyWrite ==
  \A p \in Procs :
    LET c == calls[p] IN
      (c.op = "copy" /\ Missing(c) # {}) =>
        /\ c.pc \in {"done", "idle"}
        /\ c.ret = "err:nobinary"
        /\ \E j \in Missing(c) : c.bad = c.names[j]
        /\ c.w = {}
        /\ c.post = c.pre

C14_Witness ==
  \E p \in Procs :
    /\ calls[p].op = "copy"
    /\ Returned(calls[p])
    /\ calls[p].ret = "err:nobinary"
    /\ calls[p].tool = "demo"
    /\ calls[p].names = <<"x", "nope">>
    /\ calls[p].path = <<"fresh", "dir">>
    /\ EvalSymlinks(fs, PathDocker(<<"bin", "x">>)).e = ""

\* the bytes of the file p names in F, links followed
BytesAt(F, p) ==
  IF Follow(F, p).st = "ok" /\ F.n[Follow(F, p).p].k = "file"
    THEN F.i[F.n[Follow(F, p).p].ino].data
    ELSE <<"no file">>

\* C15: when CopyToolBinaries returns success for a non-empty list, the
\* destination directory exists and every <path>/<name> holds exactly the
\* bytes of the file the published docker link of that name resolves to,
\* whatever it held before.
C15_CopiedBytes ==
  \A p \in Procs :
    LET c == calls[p] IN
      (c.op = "copy" /\ Returned(c) /\ c.ret = "ok" /\ c.names # <<>>) =>
        /\ Follow(c.post, c.path).st = "ok"
        /\ IsDir(c.post, Follow(c.post, c.path).p)
        /\ \A j \in DOMAIN c.names :
             BytesAt(c.post, c.path \o <<c.names[j]>>)
               = BytesAt(c.post, PathDocker(storedBinaryNames(c.tool)[c.names[j]]))

C15_Witness ==
  \E p \in Procs :
    /\ calls[p].op = "copy"
    /\ Returned(calls[p])
    /\ calls[p].ret = "ok"
    /\ calls[p].path = OutDir
    /\ calls[p].names = <<"x">>
    /\ BytesAt(calls[p].pre, OldFile) = <<"old", "old", "old">>
    /\ BytesAt(calls[p].post, OldFile) = <<"B">>

\* the installed-state check made on F counts the tool as installed
ReportsInstalled(name, platform, F) ==
  RunCheck(Begin(name, platform, SomeOrder(name, platform), F, FALSE, F), F).ret = "ok"

\* C16: the installed-state check accepts a destination whose link resolves
\* to the expected artifact only when the resolved file has all three owner
\* bits set (mode & 0700 = 0700); with only some of them set the tool counts
\* as not installed.
C16_AcceptedArtifactsHaveOwnerBits ==
  (\A p \in Procs : ~InFlight(calls[p])) =>
    \A k \in Keys :
      ReportsInstalled(k[1], k[2], fs) =>
        \A dst \in DOMAIN Effective(k[1], k[2]) :
          OwnerBits(Stat(fs, DstDir(k[2]) \o dst).mode) = 7

\* the destination dst of the call's tool passes the tests of the check on F
Accepted(F, c, dst) ==
  /\ EvalSymlinks(F, DstDir(c.platform) \o dst)
       = [e |-> "", p |-> toolDir(c.tool, c.platform) \o Effective(c.tool, c.platform)[dst]]
  /\ OwnerBits(Stat(F, DstDir(c.platform) \o dst).mode) # 0

\* C17: in one ensure call the first destination that is missing, dangling
\* or resolves elsewhere ends the check and install is called once: while
\* the call is in its check every destination examined so far was accepted
\* and nothing was requested or written, and once a request is made the call
\* never examines a destination again, so it makes at most one request.
C17_CheckShortCircuits ==
  \A p \in Procs :
    LET c == calls[p] IN
      c.op = "ensure" =>
        /\ c.reqs <= 1
        /\ c.pc = "check" =>
             /\ c.reqs = 0
             /\ c.w = {}
             /\ \A j \in 1..(c.i - 1) : Accepted(fs, c, c.order[j])

C17_Witness ==
  \E p \in Procs :
    /\ Returned(calls[p])
    /\ calls[p].tool = "go"
    /\ calls[p].reqs = 1
    /\ calls[p].ret = "ok"
    /\ \A dst \in DOMAIN Effective("go", linuxAMD64) : ~Accepted(calls[p].pre, calls[p], dst)

\* the sequence part occurs in the sequence text
Contains(text, part) ==
  \E j \in 0..(Len(text) - Len(part)) : SubSeq(text, j + 1, j + Len(part)) = part

\* C18: the link published for a docker destination of any depth is
\* relative, its text does not contain the cache root, and from the link's
\* own directory it resolves to <platformDir>/<tool>-<version>/<source>,
\* also when the cache root is mounted at another absolute path.
C18_DockerLinkRelocatable ==
  link.pc \in {"linked", "mounted"} =>
    LET at == dockerAMD64Dir(link.root) \o link.dst
        artifact == dockerAMD64Dir(link.root) \o <<tools[link.tool].Dir>> \o link.src
    IN /\ at \in DOMAIN fs.n
       /\ fs.n[at].k = "link"
       /\ ~fs.n[at].abs
       /\ ~Contains(fs.n[at].to, CacheDir)
       /\ Walk(fs, Parent(at), fs.n[at].to, MaxSymlinks) = [st |-> "ok", p |-> artifact]
       /\ EvalSymlinks(fs, at) = [e |-> "", p |-> artifact]
       /\ fs.n[artifact].k = "file"

C18_Witness ==
  /\ link.pc = "mounted"
  /\ Len(link.dst) = 3
  /\ Len(link.src) = 2
  /\ EvalSymlinks(fs, dockerAMD64Dir(link.root) \o link.dst).e = ""

\* C19: install returns success only when the SHA-256 of the complete
\* response body, the bytes after the end-of-archive marker of a .tar.gz
\* included, equals the declared digest.
C19_DigestCoversWholeBody ==
  \A p \in Procs :
    (Returned(calls[p]) /\ calls[p].ret = "ok" /\ calls[p].reqs = 1) =>
      Sha256(calls[p].body) = Source(calls[p]).Hash.sum

\* what is at the destinations of the tool on the platform in F
Published(F, name, platform) ==
  [dst \in DOMAIN Effective(name, platform) |->
     IF DstDir(platform) \o dst \in DOMAIN F.n THEN <<F.n[DstDir(platform) \o dst]>>
     ELSE <<>>]

\* C20: within an install no destination link is removed, created or
\* retargeted before the digest comparison has succeeded: up to and
\* including the comparison, and when the call has returned an error, the
\* destinations of the call are what they were when the call began.
C20_VerificationPrecedesPublication ==
  \A p \in Procs :
    LET c == calls[p] IN
      /\ (c.op = "ensure" /\ c.pc \in {"rmdir", "mkdir", "untar", "open", "copy", "sum", "fail"}) =>
           Published(fs, c.tool, c.platform) = Published(c.pre, c.tool, c.platform)
      /\ (Returned(c) /\ c.ret \in InstallErrors) =>
           Published(c.post, c.tool, c.platform) = Published(c.pre, c.tool, c.platform)

\* C21: when the GET request fails at transport level, install returns that
\* error after exactly one request and the filesystem is as it was when the
\* call began: the tool directory and the destination links are untouched.
C21_TransportFailureFrame ==
  \A p \in Procs :
    (Returned(calls[p]) /\ calls[p].ret = "err:transport") =>
      /\ calls[p].reqs = 1
      /\ calls[p].post = calls[p].pre
      /\ calls[p].w = {}

C21_Witness ==
  \E p \in Procs :
    /\ Returned(calls[p])
    /\ calls[p].ret = "err:transport"
    /\ toolDir(calls[p].tool, calls[p].platform) \in DOMAIN calls[p].pre.n
    /\ \E dst \in DOMAIN Effective(calls[p].tool, calls[p].platform) :
         DstDir(calls[p].platform) \o dst \in DOMAIN calls[p].pre.n

\* C22: when the server answers the GET with a non-success status, install
\* returns a transport error, whatever the body of the answer is.
C22_NonSuccessIsTransportError ==
  \A p \in Procs :
    (Returned(calls[p]) /\ calls[p].reqs = 1 /\ calls[p].status \notin {"", "200"}) =>
      calls[p].ret = "err:transport"

\* C23: when the Hash string of the source has no ':' or names another
\* algorithm than sha256, install ends in a panic, and the filesystem is as
\* it was when the call began.
C23_BadDigestPanics ==
  \A p \in Procs :
    LET c == calls[p] IN
      (Returned(c) /\ c.reqs = 1 /\ c.tool \in Misconfigured) =>
        /\ c.ret = "panic"
        /\ c.post = c.pre

\* C24: right after untar has processed a regular-file entry, the file at
\* the entry's path holds exactly the bytes of the entry, also when a longer
\* file was there before.
C24_RegularFileOverwrite ==
  \A p \in Procs :
    LET c == calls[p] IN
      (c.pc = "untar" /\ c.pos > 1 /\ c.body[c.pos - 1].t = "reg") =>
        BytesAt(fs, toolDir(c.tool, c.platform) \o c.body[c.pos - 1].name)
          = c.body[c.pos - 1].data

\* the bytes of a response body, chunk by chunk
Bytes(body) == [j \in DOMAIN body |-> body[j].b]

\* C25: for a source whose URL does not end in .tar.gz, a successful install
\* leaves in the version-qualified directory exactly one file, named
\* basename(url), whose bytes are the response body as it came.
C25_SingleFileVerbatim ==
  \A p \in Procs :
    LET c == calls[p] IN
      (Installed(c) /\ ~Source(c).URL.targz) =>
        /\ {q \in DOMAIN c.post.n : IsPrefix(toolDir(c.tool, c.platform), q)}
             = {toolDir(c.tool, c.platform),
                toolDir(c.tool, c.platform) \o <<Source(c).URL.base>>}
        /\ c.post.n[toolDir(c.tool, c.platform) \o <<Source(c).URL.base>>].k = "file"
        /\ BytesAt(c.post, toolDir(c.tool, c.platform) \o <<Source(c).URL.base>>)
             = Bytes(c.body)

C25_Witness ==
  \E p \in Procs :
    /\ Installed(calls[p])
    /\ calls[p].tool = "gaia"
    /\ Len(calls[p].body) = 2
    /\ BytesAt(fs, toolDir("gaia", dockerAMD64) \o <<"gaiad-v7.1.0-linux-amd64">>)
         = <<"G1", "G2">>

\* C26: the outcome of ensure comes from the filesystem at the time of the
\* call alone: a call returns success without a request only when every
\* destination passed the check on the filesystem the call began on; when
\* one did not (after a failed install, or a link or the tool directory was
\* deleted or retargeted from outside) the call has issued a request once it
\* is past the request, and when that install succeeds every destination
\* passes the check again.
C26_NoRememberedVerdict ==
  \A p \in Procs :
    LET c == calls[p]
        valid == \A dst \in DOMAIN Effective(c.tool, c.platform) : Accepted(c.pre, c, dst)
    IN (c.op = "ensure" /\ <<c.tool, c.platform>> \in Keys) =>
         /\ (Returned(c) /\ c.ret = "ok" /\ c.reqs = 0) => valid
         /\ ((InFlight(c) \/ Returned(c)) /\ c.pc \notin {"ensure", "check", "install"}
               /\ ~valid) => c.reqs = 1
         /\ Installed(c) =>
              \A dst \in DOMAIN Effective(c.tool, c.platform) : Accepted(c.post, c, dst)

C26_Witness ==
  \E p \in Procs :
    /\ Installed(calls[p])
    /\ started = 2
    /\ toolDir(calls[p].tool, calls[p].platform) \in DOMAIN calls[p].pre.n
    /\ \E dst \in DOMAIN Effective(calls[p].tool, calls[p].platform) :
         EvalSymlinks(calls[p].pre, DstDir(calls[p].platform) \o dst) = [e |-> "", p |-> Cwd]

\* everything that was under the cache root in F is in G as it was in F:
\* same node, and for a file the same bytes and mode
CacheKept(F, G) ==
  \A q \in DOMAIN F.n :
    IsPrefix(CacheDir, q) =>
      /\ q \in DOMAIN G.n
      /\ G.n[q] = F.n[q]
      /\ F.n[q].k = "file" => G.i[G.n[q].ino] = F.i[F.n[q].ino]

\* C27: CopyToolBinaries issues no request and only reads the cache: at
\* every step of a call, what was under the cache root when the call began
\* is still there unchanged.
C27_MaterializerFrame ==
  \A p \in Procs :
    (calls[p].op = "copy" /\ calls[p].pc # "idle") =>
      /\ calls[p].reqs = 0
      /\ CacheKept(calls[p].pre, fs)

\* C28: for a tool whose effective mapping is empty, ensure returns success
\* without a request and without touching the filesystem, whatever the
\* filesystem holds, an empty cache included.
C28_EmptyMappingSucceeds ==
  \A p \in Procs :
    LET c == calls[p] IN
      (c.op = "ensure" /\ <<c.tool, c.platform>> \in Keys
         /\ Effective(c.tool, c.platform) = EmptyFn /\ c.pc # "idle") =>
        /\ Returned(c)
        /\ c.ret = "ok"
        /\ c.reqs = 0
        /\ c.w = {}
        /\ c.post = c.pre

C28_Witness ==
  \E p \in Procs :
    /\ Returned(calls[p])
    /\ calls[p].tool = "bare"
    /\ calls[p].ret = "ok"
    /\ TreeAbsent(fs, CacheDir)

\* C29: when an install call has ended, by success, by an error or by a
\* panic in a publish step, either every destination of the effective
\* mapping is published and resolves to its artifact, or the destinations
\* are what they were when the call began.
C29_AllOrNothingPublication ==
  \A p \in Procs :
    LET c == calls[p] IN
      (Returned(c) /\ c.reqs = 1) =>
        \/ \A dst \in DOMAIN Effective(c.tool, c.platform) :
             EvalSymlinks(c.post, DstDir(c.platform) \o dst)
               = [e |-> "", p |-> toolDir(c.tool, c.platform) \o Effective(c.tool, c.platform)[dst]]
        \/ Published(c.post, c.tool, c.platform) = Published(c.pre, c.tool, c.platform)

\* C30: every tool of the catalog is for the local or the docker context;
\* a ForLocal tool has a source for linux/amd64, darwin/amd64 and
\* darwin/arm64, a ForDocker tool for docker/amd64 and docker/arm64;
\* InstallAll calls EnsureLocal exactly for the ForLocal tools and
\* EnsureDocker exactly for the ForDocker tools it visits, stops at the
\* first error, and on those hosts no lookup ends in the panic "not
\* configured for platform".
C30_CatalogCoverage ==
  /\ \A t \in DOMAIN Catalog :
       /\ Catalog[t].ForLocal \/ Catalog[t].ForDocker
       /\ Catalog[t].ForLocal => {linuxAMD64, darwinAMD64, darwinARM64} \subseteq Catalog[t].Sources
       /\ Catalog[t].ForDocker => {dockerAMD64, dockerARM64} \subseteq Catalog[t].Sources
  /\ run.pc # "none" =>
       /\ run.ret \notin {"panic", "err:undefined"}
       /\ \A m \in run.made :
            IF m[2] = "local" THEN Catalog[m[1]].ForLocal ELSE Catalog[m[1]].ForDocker
       /\ (run.pc = "done" /\ run.ret = "ok") =>
            run.made = {<<t, "local">> : t \in {x \in DOMAIN Catalog : Catalog[x].ForLocal}}
                         \cup {<<t, "docker">> : t \in {x \in DOMAIN Catalog : Catalog[x].ForDocker}}
       /\ run.ret = "err" => run.pc = "done"

C30_Witness ==
  /\ run.pc = "done"
  /\ run.ret = "ok"
  /\ run.host = darwinARM64
  /\ <<"gaia", "docker">> \in run.made

\* C31: whenever Stop returns, with the target stopped or not, every app of
\* the spec has status Stopped and the spec was saved once, after the
\* statuses were set (a save that succeeds leaves exactly these statuses on
\* disk); the returned error is the target's stop error if there is one,
\* otherwise the error of saving the spec.
C31_StopAlwaysMarksAndSaves ==
  (znet.pc = "done" /\ znet.ret # "panic") =>
    /\ \A app \in AppNames : znet.apps[app] = AppStatusStopped
    /\ znet.saves = 1
    /\ znet.save = nil => znet.saved = <<znet.apps>>
    /\ znet.ret = IF znet.stop # nil THEN znet.stop ELSE znet.save

C31_Witness ==
  /\ znet.pc = "done"
  /\ znet.stop = "err:stop"
  /\ znet.save = "err:save"
  /\ znet.ret = "err:stop"
  /\ \A app \in AppNames : znet.apps[app] = AppStatusStopped

\* C32 as stated: a target error returns at once with the home directory
\* untouched; there are at most 3 attempts; nil is returned at the first
\* attempt that succeeds or finds the directory absent; the context error
\* is returned only from a wait between two attempts, so that after a
\* third failed attempt the error of that attempt is returned; the call
\* terminates.
C32_RemoveAsStated ==
  (znet.pc = "done" /\ znet.ret # "panic") =>
    /\ znet.target # nil =>
         znet.ret = znet.target /\ znet.outs = <<>> /\ znet.home = znet.home0
    /\ znet.target = nil =>
         /\ Len(znet.outs) \in 1..Attempts
         /\ \A k \in 1..(Len(znet.outs) - 1) : znet.outs[k] \notin {nil, ErrNotExist}
         /\ znet.ret = nil <=> znet.outs[Len(znet.outs)] \in {nil, ErrNotExist}
         /\ znet.ret = CtxErr => znet.cancelled /\ Len(znet.outs) < Attempts
         /\ (Len(znet.outs) = Attempts /\ znet.outs[Attempts] \notin {nil, ErrNotExist}) =>
              znet.ret = znet.outs[Attempts]

\* what Remove has done and returned at any moment: the target first and
\* nothing deleted before it succeeded; no attempt after one that
\* succeeded; at most 3 attempts; the context error only from a cancelled
\* context in the wait after a failed attempt, the third included; the
\* last attempt's error only after 3 failed attempts
RemoveSafe ==
  /\ znet.pc \in {"target"} => znet.outs = <<>> /\ znet.home = znet.home0
  /\ Len(znet.outs) <= Attempts
  /\ \A k \in 1..(Len(znet.outs) - 1) : znet.outs[k] \notin {nil, ErrNotExist}
  /\ (znet.pc = "done" /\ znet.target # nil) =>
       znet.ret = znet.target /\ znet.outs = <<>> /\ znet.home = znet.home0
  /\ (znet.pc = "done" /\ znet.target = nil) =>
       /\ Len(znet.outs) >= 1
       /\ znet.ret = nil <=> znet.outs[Len(znet.outs)] \in {nil, ErrNotExist}
       /\ znet.ret = nil => znet.home = "absent"
       /\ znet.ret = CtxErr => znet.cancelled
       /\ znet.ret \notin {nil, CtxErr} =>
            Len(znet.outs) = Attempts /\ znet.ret = znet.outs[Attempts]

\* C32 (amended): a target error returns at once with the home directory
\* untouched; deletion is attempted at most 3 times; Remove returns nil at
\* the first attempt that succeeds or finds the directory absent; it
\* returns the context error when it picks the cancelled context in the
\* wait after a failed attempt, the wait after the third attempt included;
\* otherwise, after 3 failed attempts, it returns the error of the last
\* one; the call always terminates.
C32_RemoveTerminates == []RemoveSafe /\ <>(znet.pc = "done")

C32_Witness ==
  /\ znet.pc = "done"
  /\ znet.target = nil
  /\ Len(znet.outs) = Attempts
  /\ znet.ret = CtxErr
  /\ znet.home = "partial"
====
